---- MODULE Spec2Model ----
(***************************************************************************)
(* sloggergo: the synchronous Logger (level gate, field merge, hook chain, *)
(* destination fan-out) and the AsyncLogger wrapped around it (bounded     *)
(* queue, worker pool, Close).                                             *)
(***************************************************************************)
EXTENDS Integers, Sequences, FiniteSets, TLC

\* ------------------------------------------------------------ levels
DebugLevel == 0
InfoLevel == 1
WarnLevel == 2
ErrorLevel == 3
FatalLevel == 4

Levels == DebugLevel .. FatalLevel

\* ------------------------------------------------------------ bounds
MaxSinks == 2          \* destinations a logger may hold
MaxBuffer == 2         \* largest queue capacity (WithBufferSize)
MaxWorkers == 2        \* largest worker count (WithWorkers)
MaxCalls == MaxBuffer + 1   \* calls one producer issues on an AsyncLogger

Callers == {"p1"}
Closers == {"k1", "k2"}
WorkerIds == 1 .. MaxWorkers

\* The levels and attribute lists of the calls made on an AsyncLogger, and the
\* minimum levels it is constructed with.
AsyncCallLevels_withFatal == {DebugLevel, FatalLevel}

AsyncCallLevels == {DebugLevel, ErrorLevel}
AsyncMinLevels == {InfoLevel}
AsyncHookChains == { <<"mark">>, <<"mark", "veto">> }
AsyncSinkCounts == {2}

\* The sets of destinations whose Write fails: none, the first, all.
FaultySets == { {}, {1}, 1 .. MaxSinks }

Keys == {"a", "b"}
HookKey == "hooked"
TraceKey == "trace_id"

\* Timestamp layouts: the default of New and one set by WithTimeFormat.
RFC3339Nano == "RFC3339Nano"
AsyncTimeFormats == {"2006-01-02"}

\* ------------------------------------------------------------ field maps
\* A field map is a function from a finite set of keys to values.
EmptyMap == [k \in {} |-> "none"]

\* fields[key] = value
Put(f, k, v) == [x \in (DOMAIN f) \cup {k} |-> IF x = k THEN v ELSE f[x]]

\* slog.Attr lists: a sequence of [Key, Value] pairs.
Attr(k, v) == [Key |-> k, Value |-> v]

\* for _, val := range keyvals { fields[val.Key] = val.Value.Any() }
RECURSIVE ApplyAttrs(_, _)
ApplyAttrs(f, attrs) ==
    IF attrs = <<>> THEN f
    ELSE ApplyAttrs(Put(f, Head(attrs).Key, Head(attrs).Value), Tail(attrs))

\* The attribute lists a call site (tier "site") or a context (tier "ctx")
\* may carry: every subset of Keys, in a fixed order, each value naming its tier.
AttrLists(tier) == { <<>>, <<Attr("a", tier), Attr("b", tier)>> }

\* The default fields installed by WithFields: key "a" has a default, key "b" none.
DefaultFields == [k \in {"a"} |-> "default"]

\* ------------------------------------------------------------ level gate
Filtered_le(lv, min) == lv <= min

\* if level < l.level { return }
Filtered(lv, min) == lv < min

\* ------------------------------------------------------------ record
\* &formatter.Entry{Time: time.Now().Format(layout), Level: ..., Fields: fields}
NewEntry(id, lv, f, layout) == [id |-> id, level |-> lv, fields |-> f, layout |-> layout]

NoEntry == NewEntry(<<"none", 0>>, 0, EmptyMap, "none")

KeyvalsWithContext_rev(hasExtractor, ctxAttrs, keyvals) ==
    IF hasExtractor /\ Len(ctxAttrs) > 0 THEN keyvals \o ctxAttrs ELSE keyvals

\* newKeyvals = append(ctxAttrs...), append(keyvals...)
KeyvalsWithContext(hasExtractor, ctxAttrs, keyvals) ==
    IF hasExtractor /\ Len(ctxAttrs) > 0 THEN ctxAttrs \o keyvals ELSE keyvals

\* fields := copy of l.fields, then every attr assigned in order
MergeFields(defaults, keyvals) == ApplyAttrs(defaults, keyvals)

\* ------------------------------------------------------------ hooks
\* A hook either mutates the record (sets fields["hooked"]) and returns nil,
\* or returns an error (the drop signal).
HookKinds == {"mark", "veto"}
HookChains == { <<>>, <<"mark", "veto">>, <<"veto", "mark">> }

\* A third kind of hook, "stamp", reads what an earlier hook may have set: it
\* sets fields["stamp"] to "after" when fields["hooked"] is present and to
\* "before" otherwise, and returns nil.
StampKey == "stamp"

ApplyHook(kind, e) ==
    IF kind = "mark"
    THEN [err |-> FALSE, e |-> [e EXCEPT !.fields = Put(e.fields, HookKey, "yes")]]
    ELSE IF kind = "stamp"
    THEN [err |-> FALSE,
          e |-> [e EXCEPT !.fields =
                    Put(e.fields, StampKey,
                        IF HookKey \in DOMAIN e.fields THEN "after" ELSE "before")]]
    ELSE [err |-> TRUE, e |-> e]

RECURSIVE RunHooksFrom(_, _, _)
RunHooksFrom(hs, i, e) ==
    IF i > Len(hs) THEN [veto |-> FALSE, e |-> e, ran |-> i - 1]
    ELSE LET r == ApplyHook(hs[i], e)
         IN IF r.err THEN [veto |-> TRUE, e |-> r.e, ran |-> i]
            ELSE RunHooksFrom(hs, i + 1, r.e)

RECURSIVE RunHooksIgnoringErrors(_, _, _)
RunHooksIgnoringErrors(hs, i, e) ==
    IF i > Len(hs) THEN [veto |-> FALSE, e |-> e, ran |-> i - 1]
    ELSE RunHooksIgnoringErrors(hs, i + 1, ApplyHook(hs[i], e).e)

RunHooks_noveto(hs, e) == RunHooksIgnoringErrors(hs, 1, e)

RunHooks_lastFirst(hs, e) ==
    RunHooksFrom([i \in 1 .. Len(hs) |-> hs[Len(hs) + 1 - i]], 1, e)

\* for _, hook := range l.hooks { if err := hook(ctx, entry); err != nil { return } }
RunHooks(hs, e) == RunHooksFrom(hs, 1, e)

\* ------------------------------------------------------------ fan-out
Event(t, s, e, ok) == [t |-> t, sink |-> s, e |-> e, ok |-> ok]

\* The number of times the error handler is invoked for one Write.
HandlerCalls_twice(handler, ok) == IF ok THEN 0 ELSE 2

NextSink_break(i, n, ok) == IF ok THEN i + 1 ELSE n + 1

\* for _, s := range sinks: the loop goes on to the next sink whatever Write returned
NextSink(i, n, ok) == i + 1


\* if err != nil { if errorHandler != nil { errorHandler(err) } }
HandlerCalls(handler, ok) == IF ~ok /\ handler THEN 1 ELSE 0

\* The events of one s.Write(entry) in the synchronous fan-out: the Write, then
\* the handler invocations it causes.
WriteEvents(handler, s, e, ok) ==
    <<Event("write", s, e, ok)>>
        \o [i \in 1 .. HandlerCalls(handler, ok) |-> Event("handler", s, e, ok)]

\* ------------------------------------------------------------ queue
TrySend_evict(buf, e, cap) ==
    IF Len(buf) < cap THEN Append(buf, e)
    ELSE IF cap > 0 THEN Append(Tail(buf), e) ELSE buf

TrySend_push(buf, e, cap) == IF Len(buf) < cap THEN <<e>> \o buf ELSE buf

\* select { case a.buffer <- entry: default: }
TrySend(buf, e, cap) == IF Len(buf) < cap THEN Append(buf, e) ELSE buf

AlreadyClosed_never(flag) == FALSE

\* if a.closed { return nil }
AlreadyClosed(flag) == flag

VARIABLES
    async,          \* TRUE when the Logger is wrapped by NewAsync
    level,          \* Logger.level
    sinks,          \* Logger.sinks: sequence of destination ids
    faulty,         \* the destinations whose Write and Close return an error
    fields,         \* Logger.fields
    hooks,          \* Logger.hooks
    extractor,      \* Logger.extractor != nil
    errorHandler,   \* Logger.errorHandler != nil
    timeFormat,     \* Logger.timeFormat
    bufferSize,     \* AsyncLogger.bufferSize
    workers,        \* AsyncLogger.workers
    sampling,       \* AsyncLogger.sampling
    buffer,         \* AsyncLogger.buffer: the queued entries
    bufClosed,      \* close(a.buffer) has been executed
    closed,         \* AsyncLogger.closed
    pc,             \* each caller's position in log / logAsync
    wpc,            \* each worker's position in worker()
    cpc,            \* each closer's position in AsyncLogger.Close
    exited,         \* os.Exit(1) has been called
    events,         \* synchronous path: Writes and handler calls, in order
    calls,          \* summary of every finished log call
    accepted,       \* entries accepted into the queue, in order
    wrote,          \* the Writes done by the workers
    sinkCloses,     \* how many times each destination's Close was invoked
    fpc,            \* the caller of AsyncLogger.Flush: its position
    disk,           \* FileSink: the files at path (index 0) and path.i (index i)
    fsize,          \* FileSink.size
    maxSize,        \* FileSink.maxSize
    maxBackups,     \* FileSink.maxBackups
    fhist,          \* the contents of the rotated-out active files, latest first
    flast,          \* the last FileSink.Write: what it found and what it did
    fwrites,        \* the number of FileSink.Write calls made
    fhandle,        \* FileSink.file: the handle is "open" or "closed"
    fret,           \* the last FileSink.Write: its error and the I/O operations that failed
    fmu,            \* FileSink.mu: the writer holding it, or "none"
    wr,             \* each concurrent writer's position in FileSink.Write
    sInitial,       \* SamplingConfig.Initial
    sThereafter,    \* SamplingConfig.Thereafter
    sInterval,      \* SamplingConfig.Interval
    counts,         \* SampledLogger.counts: key -> sampleCounter
    now,            \* time.Now()
    admitted,       \* per key: the calls of the current window that were allowed
    slast,          \* the last call made through the SampledLogger
    pin,            \* ParseLevel: the string passed
    pout,           \* ParseLevel: the Level returned
    child,          \* the Logger returned by With
    heap,           \* the arrays behind the sinks slices of the parent and of the child
    clog            \* the last log call made on the parent or on the child

vars == <<async, level, sinks, faulty, fields, hooks, extractor, errorHandler,
          timeFormat, bufferSize, workers, sampling, buffer, bufClosed, closed, pc, wpc, cpc, exited, events,
          calls, accepted, wrote, sinkCloses, fpc,
          disk, fsize, maxSize, maxBackups, fhist, flast, fwrites, fhandle, fret, fmu, wr,
          sInitial, sThereafter, sInterval, counts, now, admitted, slast,
          pin, pout, child, heap, clog>>

config == <<async, faulty, fields, hooks, extractor, errorHandler, timeFormat,
            bufferSize, workers, sampling>>

\* The state of the AsyncLogger.Flush caller, of the FileSink and of the
\* SampledLogger: a Logger or AsyncLogger operation changes none of them.
flushVars == <<fpc>>
faultVars == <<fhandle, fret>>
lockVars == <<fmu, wr>>
fileVars == <<disk, fsize, maxSize, maxBackups, fhist, flast, fwrites, faultVars, lockVars>>
samplerVars == <<sInitial, sThereafter, sInterval, counts, now, admitted, slast>>
parseVars == <<pin, pout>>

\* The state outside the Logger, the AsyncLogger, Flush, the FileSink and the
\* SampledLogger.
withVars == <<child, heap, clog>>
extraVars == <<parseVars, withVars>>
others == <<flushVars, fileVars, samplerVars, extraVars>>

\* The state of the Logger and of the AsyncLogger around it.
loggerVars == <<config, level, sinks, buffer, bufClosed, closed, pc, wpc, cpc, exited,
                events, calls, accepted, wrote, sinkCloses>>

IdleCaller(n) ==
    [st |-> "idle", n |-> n, lvl |-> 0, min |-> 0, kv |-> <<>>, ctx |-> <<>>,
     snap |-> <<>>, idx |-> 0, e |-> NoEntry]

IdleWorker == [st |-> "recv", e |-> NoEntry, snap |-> <<>>, handler |-> FALSE, idx |-> 0]

IdleCloser == [st |-> "idle", via |-> "none", ret |-> 0]

\* mark: the number of records accepted into the queue when Flush was called
IdleFlush == [st |-> "idle", mark |-> 0]

CallSummary(c, p, out) ==
    [id |-> <<c, p.n + 1>>, lvl |-> p.lvl, min |-> p.min, out |-> out,
     snap |-> p.snap, kv |-> p.kv, ctx |-> p.ctx, e |-> p.e]

\* The histories (events, calls) of a synchronous Logger describe the call in
\* progress or the last finished one: a call's effects end when it returns, so
\* each new call starts them afresh and the number of calls is unbounded.  An
\* AsyncLogger's histories are kept whole, its calls being counted.
Begin(h) == IF async THEN h ELSE <<>>
Count(n) == IF async THEN n + 1 ELSE n

\* The attribute lists of a call.
CallAttrs(tier) ==
    IF async
    THEN {<<Attr("a", tier), Attr("b", tier)>>
            \o (IF tier = "ctx" THEN <<Attr(TraceKey, tier)>> ELSE <<>>)}
    ELSE AttrLists(tier)

\* s.Write(entry) returns nil
WriteOk(s) == s \notin faulty

\* The shutdown has got as far as this when a worker performs a Write.
ShutdownStage ==
    IF \E k \in DOMAIN cpc : cpc[k].st = "returned" /\ cpc[k].via # "noop"
    THEN "returned"
    ELSE IF \E s \in DOMAIN sinkCloses : sinkCloses[s] > 0 THEN "closing" ELSE "open"

\* One Write of a worker, as recorded in wrote.
WorkerWrite(e, s, ok, handled) ==
    [id |-> e.id, e |-> e, sink |-> s, ok |-> ok, handled |-> handled,
     nth |-> Cardinality({x \in wrote : x.id = e.id /\ x.sink = s}) + 1,
     stage |-> ShutdownStage]

\* ------------------------------------------------------------ FileSink
MaxBackups == 2        \* largest maxBackups (WithMaxBackups)
MaxWrites == 4         \* Writes made on one FileSink
FileMaxSizes == {0, 2, 3}      \* maxSize: 0 is "no rotation"
RecordLens == {1, 2, 4}        \* len(data) of a formatted record
BackupIndexes == 0 .. MaxBackups

\* A path of the directory: a file with its content (the records appended to
\* it, each with its length in bytes), or no file.
File(data) == [exists |-> TRUE, data |-> data]
Absent == [exists |-> FALSE, data |-> <<>>]

Rec(id, len) == [id |-> id, len |-> len]

\* info.Size(): the bytes of a file
RECURSIVE Bytes(_)
Bytes(data) == IF data = <<>> THEN 0 ELSE Head(data).len + Bytes(Tail(data))

Rename_copy(d, a, b) == IF d[a].exists THEN [d EXCEPT ![b] = d[a]] ELSE d

\* _ = os.Rename(oldPath, newPath): replaces newPath; fails, ignored, when
\* oldPath does not exist
Rename(d, a, b) == IF d[a].exists THEN [d EXCEPT ![b] = d[a], ![a] = Absent] ELSE d

ShiftBackups_none(d, i) == d

\* for i := s.maxBackups - 1; i >= 1; i-- { rename path.i to path.(i+1) }
RECURSIVE ShiftBackups(_, _)
ShiftBackups(d, i) == IF i < 1 THEN d ELSE ShiftBackups(Rename(d, i, i + 1), i - 1)

\* os.OpenFile(path, O_CREATE|O_WRONLY|O_APPEND): creates the file if missing
OpenAppend(d) == IF d[0].exists THEN d ELSE [d EXCEPT ![0] = File(<<>>)]

NeedsRotation_ge(size, nextLen, max) == max > 0 /\ size + nextLen >= max

\* if s.maxSize <= 0 { return nil }; if s.size+int64(nextLen) <= s.maxSize { return nil }
NeedsRotation(size, nextLen, max) == max > 0 /\ size + nextLen > max

\* rotateIfNeededLocked past its two early returns: close, move or delete the
\* active file, reopen the base path.
RotateFiles(d, n) ==
    OpenAppend(IF n > 0 THEN Rename(ShiftBackups(d, n - 1), 0, 1)
               ELSE [d EXCEPT ![0] = Absent])

NoWrite == [rotated |-> FALSE, before |-> Absent, size |-> 0, rec |-> Rec(0, 0)]

\* The I/O operations of a Write that can fail: s.file.Close, the renames of
\* the shift loop, os.Rename(path, path.1), os.Remove(path), os.OpenFile, and
\* s.file.Write, which fails having written nothing ("append") or all bytes but
\* the last ("short").
FaultKinds == {"close", "shift", "move", "remove", "open", "append", "short"}
FaultSets == {{}} \cup {{k} : k \in FaultKinds}

\* The shift loop, the move or delete of the active file, with the
\* operations in F failing (their errors are discarded).
MoveFiles(d, n, F) ==
    IF n > 0
    THEN LET shifted == IF "shift" \in F THEN d ELSE ShiftBackups(d, n - 1)
         IN IF "move" \in F THEN shifted ELSE Rename(shifted, 0, 1)
    ELSE IF "remove" \in F THEN d ELSE [d EXCEPT ![0] = Absent]

\* A FileSink: the files, s.size and the handle s.file.
Sink(d, size, handle) == [disk |-> d, size |-> size, handle |-> handle]

\* rotateIfNeededLocked(len) on sink st with the operations in F failing:
\* the sink afterwards, the error returned, and the operations that failed.
\* Close of a handle that is already closed fails; a failed Close leaves the
\* handle closed.
Rotate(st, len, max, n, F) ==
    IF ~NeedsRotation(st.size, len, max)
    THEN [st |-> st, err |-> FALSE, rotated |-> FALSE, failed |-> {}]
    ELSE IF st.handle = "closed" \/ "close" \in F
    THEN [st |-> [st EXCEPT !.handle = "closed"], err |-> TRUE, rotated |-> FALSE,
          failed |-> {"close"}]
    ELSE LET d == MoveFiles(st.disk, n, F)
             tried == IF n > 0 THEN {"shift", "move"} ELSE {"remove"}
         IN IF "open" \in F
            THEN [st |-> Sink(d, st.size, "closed"), err |-> TRUE, rotated |-> TRUE,
                  failed |-> (F \cap tried) \cup {"open"}]
            ELSE [st |-> Sink(OpenAppend(d), 0, "open"), err |-> FALSE, rotated |-> TRUE,
                  failed |-> F \cap tried]

\* The bytes a failing s.file.Write leaves in the file.
Written(len, F) == IF "short" \in F /\ len > 1 THEN len - 1 ELSE 0

\* FileSink.Write under s.mu with the operations in F failing.
WriteOutcome(st, rec, max, n, F) ==
    LET r == Rotate(st, rec.len, max, n, F)
        f == r.st.disk[0]
    IN IF r.err THEN r
       ELSE IF r.st.handle = "closed" \/ F \cap {"append", "short"} # {}
       THEN [r EXCEPT !.err = TRUE,
                      !.failed = r.failed \cup {"append"},
                      !.st.disk = IF r.st.handle = "open" /\ Written(rec.len, F) > 0
                                  THEN [r.st.disk EXCEPT ![0] =
                                          File(Append(f.data, Rec(rec.id, Written(rec.len, F))))]
                                  ELSE r.st.disk]
       ELSE [r EXCEPT !.st.disk = [r.st.disk EXCEPT ![0] = File(Append(f.data, rec))],
                      !.st.size = r.st.size + rec.len]

\* The return of a Write: its error, the I/O operations that failed in it, those
\* that were made to fail from outside (faults), and whether the reopen of some
\* Write so far has failed (cut).
NoError == [err |-> FALSE, failed |-> {}, faults |-> {}, cut |-> FALSE]

\* The goroutines calling Write on one FileSink: the workers of an AsyncLogger.
Writers == {"w1", "w2"}

\* A writer outside Write, having made n Writes.
IdleWriter(n) == [st |-> "idle", n |-> n, rec |-> Rec(0, 0), rot |-> FALSE,
                  size |-> 0, disk |-> <<>>]

MutexFree_always(m) == TRUE

\* s.mu.Lock() returns when no goroutine holds s.mu.
MutexFree(m) == m = "none"

\* No FileSink is in use.
NoFile ==
    /\ disk = [i \in BackupIndexes |-> Absent]
    /\ fsize = 0
    /\ maxSize = 0
    /\ maxBackups = 0
    /\ fhist = <<>>
    /\ flast = NoWrite
    /\ fwrites = 0
    /\ fhandle = "open"
    /\ fret = NoError
    /\ fmu = "none"
    /\ wr = <<>>

\* ------------------------------------------------------------ SampledLogger
MaxCount == 9          \* calls counted for one key in one window
MaxTime == 2           \* the clock runs from 0 to MaxTime
SampleKeys == {"m1", "m2"}
Initials == {-1, 0, 1, 2}
Thereafters == {-1, 0, 1, 3}
Intervals == {1}

\* s.counts[key]: a *sampleCounter, or no entry
Counter(count, resetTime) == [exists |-> TRUE, count |-> count, resetTime |-> resetTime]
NoCounter == [exists |-> FALSE, count |-> 0, resetTime |-> 0]

NewWindow_firstOnly(counter, t) == ~counter.exists

\* !exists || now.After(counter.resetTime)
NewWindow(counter, t) == ~counter.exists \/ t > counter.resetTime

AdmitInWindow_lt(count, initial, thereafter) ==
    \/ count < initial
    \/ thereafter > 0 /\ (count - initial) % thereafter = 0

\* shouldLog after counter.count++: the first Initial calls, then every
\* Thereafter-th.
AdmitInWindow(count, initial, thereafter) ==
    \/ count <= initial
    \/ thereafter > 0 /\ (count - initial) % thereafter = 0

Sampled_all(lv) == TRUE

\* The wrappers that consult shouldLog: Debug, Info, Warn.  Error and Fatal
\* call the base logger directly.
Sampled(lv) == lv \in {DebugLevel, InfoLevel, WarnLevel}

NoCall == [key |-> "none", lv |-> 0, forwarded |-> FALSE,
           before |-> [k \in SampleKeys |-> NoCounter]]

\* No SampledLogger is in use.
NoSampler ==
    /\ sInitial = 0
    /\ sThereafter = 0
    /\ sInterval = 0
    /\ counts = [k \in SampleKeys |-> NoCounter]
    /\ now = 0
    /\ admitted = [k \in SampleKeys |-> {}]
    /\ slast = NoCall

\* ------------------------------------------------------------ ParseLevel
\* A string is a word written in lower-case letters together with, for each of
\* its letters, whether the string has it in upper case.
Str(word, caps) == [word |-> word, caps |-> caps]

\* The level names of the switch, each with its number of letters and its Level.
LevelNames == {"debug", "info", "warn", "warning", "error", "fatal"}
WordLen == [w \in LevelNames \cup {"trace", ""} |->
              CASE w = "debug" -> 5 [] w = "info" -> 4 [] w = "warn" -> 4
                [] w = "warning" -> 7 [] w = "error" -> 5 [] w = "fatal" -> 5
                [] w = "trace" -> 5 [] OTHER -> 0]
NamedLevel == [w \in LevelNames |->
                 CASE w = "debug" -> DebugLevel [] w = "info" -> InfoLevel
                   [] w = "warn" -> WarnLevel [] w = "warning" -> WarnLevel
                   [] w = "error" -> ErrorLevel [] OTHER -> FatalLevel]

\* The strings passed to ParseLevel: every casing of every level name, and
\* strings that name no level.
Casings(w) == {Str(w, caps) : caps \in [1 .. WordLen[w] -> BOOLEAN]}
ParseInputs == UNION {Casings(w) : w \in LevelNames \cup {"trace", ""}}

\* s is the literal w of a case clause: w in lower case, or W in upper case
Lower(w) == Str(w, [i \in 1 .. WordLen[w] |-> FALSE])
Upper(w) == Str(w, [i \in 1 .. WordLen[w] |-> TRUE])

\* case "debug", "DEBUG":
Matches(s, w) == s = Lower(w) \/ s = Upper(w)

\* switch s { case ...: return XLevel; default: return InfoLevel }
ParseLevel(s) ==
    IF \E w \in LevelNames : Matches(s, w)
    THEN NamedLevel[CHOOSE w \in LevelNames : Matches(s, w)]
    ELSE InfoLevel

NoParse == pin = Str("", <<>>) /\ pout = -1

\* ------------------------------------------------------------ Logger.With
\* The arguments of With are values of any type: strings and others.
StrArg(v) == [isString |-> TRUE, val |-> v]
IntArg(v) == [isString |-> FALSE, val |-> v]

\* The argument lists passed to With: none, a pair for a key with a default, a
\* pair for a key without, a pair and a dangling key, a pair whose key is no
\* string followed by a pair.
WithArgLists ==
    { <<>>,
      <<StrArg("a"), StrArg("with")>>,
      <<StrArg("b"), StrArg("with")>>,
      <<StrArg("a"), StrArg("with"), StrArg("b")>>,
      <<IntArg("7"), StrArg("with"), StrArg("b"), StrArg("with")>> }

\* for i := 0; i < len(keyvals)-1; i += 2 {
\*     if key, ok := keyvals[i].(string); ok { fields[key] = keyvals[i+1] } }
\* (i counts from 1 here)
RECURSIVE PutPairs(_, _, _)
PutPairs(f, keyvals, i) ==
    IF i >= Len(keyvals) THEN f
    ELSE PutPairs(IF keyvals[i].isString THEN Put(f, keyvals[i].val, keyvals[i + 1].val)
                  ELSE f,
                  keyvals, i + 2)

WithMaps_shared(parentFields, keyvals) ==
    [child |-> PutPairs(parentFields, keyvals, 1),
     parent |-> PutPairs(parentFields, keyvals, 1)]

\* fields := make(map[string]any); maps.Copy(fields, l.fields); the pairs are
\* put into the copy: the maps of the child and of the parent after With
WithMaps(parentFields, keyvals) ==
    [child |-> PutPairs(parentFields, keyvals, 1), parent |-> parentFields]

\* A Logger value.
LoggerOf(lv, ss, f, hs, ex, eh, tf) ==
    [level |-> lv, sinks |-> ss, fields |-> f, hooks |-> hs, extractor |-> ex,
     errorHandler |-> eh, timeFormat |-> tf]

\* return &Logger{level: l.level, sinks: l.sinks, fields: fields,
\*                addCaller: l.addCaller, timeFormat: l.timeFormat}
\* hooks, extractor and errorHandler keep their zero values
Derived(l, childFields) ==
    LoggerOf(l.level, l.sinks, childFields, <<>>, FALSE, FALSE, l.timeFormat)

\* The destinations written by the fan-out loop over snap from position i on.
RECURSIVE FanOut(_, _)
FanOut(snap, i) ==
    IF i > Len(snap) THEN <<>>
    ELSE <<snap[i]>> \o FanOut(snap, NextSink(i, Len(snap), WriteOk(snap[i])))

RECURSIVE HandlerTotal(_, _)
HandlerTotal(handler, ws) ==
    IF ws = <<>> THEN 0
    ELSE HandlerCalls(handler, WriteOk(Head(ws))) + HandlerTotal(handler, Tail(ws))

\* One whole call of Logger.log on logger l: gate, context attributes, field
\* merge, record, hook chain, fan-out.
LogOutcome(l, id, lv, kv, ctx) ==
    IF Filtered(lv, l.level)
    THEN [out |-> "filtered", e |-> NoEntry, ran |-> 0, writes |-> <<>>, handled |-> 0]
    ELSE LET keyvals == KeyvalsWithContext(l.extractor, ctx, kv)
             entry == NewEntry(id, lv, MergeFields(l.fields, keyvals), l.timeFormat)
             r == RunHooks(l.hooks, entry)
         IN IF r.veto
            THEN [out |-> "vetoed", e |-> r.e, ran |-> r.ran, writes |-> <<>>,
                  handled |-> 0]
            ELSE [out |-> "delivered", e |-> r.e, ran |-> r.ran,
                  writes |-> FanOut(l.sinks, 1),
                  handled |-> HandlerTotal(l.errorHandler, FanOut(l.sinks, 1))]

NoChild == [made |-> FALSE, args |-> <<>>,
            l |-> LoggerOf(0, <<>>, EmptyMap, <<>>, FALSE, FALSE, "none")]

NoLogCall == [who |-> "none", lvl |-> 0, kv |-> <<>>, ctx |-> <<>>,
              r |-> [out |-> "none", e |-> NoEntry, ran |-> 0, writes |-> <<>>,
                     handled |-> 0]]

\* A slice: the array it points into (0 for nil) and its length; its capacity
\* is the length of that array.
Slice(arr, len) == [arr |-> arr, len |-> len]
NilSlice == Slice(0, 0)

Cap(h, sl) == IF sl.arr = 0 THEN 0 ELSE Len(h.arrs[sl.arr])

\* The elements a logger sees through its slice.
View(h, sl) == IF sl.arr = 0 THEN <<>> ELSE SubSeq(h.arrs[sl.arr], 1, sl.len)

\* The capacity append gives the new array when the old one is full: 1, then
\* double (the growth of the gc runtime for short slices).
GrowCap(cap) == IF cap = 0 THEN 1 ELSE 2 * cap

\* append(sl, s): with spare capacity the element is stored in the array the
\* slice points into, else in a new array holding a copy of the elements.
Appended(h, sl, s) ==
    IF sl.len < Cap(h, sl)
    THEN [h.arrs EXCEPT ![sl.arr][sl.len + 1] = s]
    ELSE h.arrs \o << [i \in 1 .. GrowCap(Cap(h, sl)) |->
                         IF i <= sl.len THEN h.arrs[sl.arr][i]
                         ELSE IF i = sl.len + 1 THEN s ELSE 0] >>

\* l.sinks = append(l.sinks, s) for the logger who ("p" or "c")
AppendSink(h, who, s) ==
    LET sl == h[who]
        arrs == Appended(h, sl, s)
        to == IF Len(arrs) > Len(h.arrs) THEN Len(arrs) ELSE sl.arr
    IN [h EXCEPT !.arrs = arrs, ![who] = Slice(to, sl.len + 1), !.adds = h.adds + 1]

\* The destinations passed to AddSink are new ones.
NewSinkId(who, k) == (IF who = "p" THEN 10 ELSE 20) + k

\* New(WithSink(1), ..., WithSink(n)): the options append one by one to the nil
\* slice.
RECURSIVE Built(_)
Built(n) ==
    IF n = 0 THEN [arrs |-> <<>>, p |-> NilSlice, c |-> NilSlice, adds |-> 0]
    ELSE [AppendSink(Built(n - 1), "p", n) EXCEPT !.adds = 0]

NoHeap == Built(0)

NoWith == child = NoChild /\ clog = NoLogCall /\ heap = NoHeap

\* ------------------------------------------------------------ construction
\* AsyncLogger.sampling: nil, or the *SamplingConfig given to WithSampling
NoSampling == [set |-> FALSE, Initial |-> 0, Thereafter |-> 0]
SamplingConfig(initial, thereafter) ==
    [set |-> TRUE, Initial |-> initial, Thereafter |-> thereafter]

\* What every construction leaves behind: no call made, nothing queued.
FreshLogger ==
    /\ buffer = <<>>
    /\ bufClosed = FALSE
    /\ closed = FALSE
    /\ pc = [c \in Callers |-> IdleCaller(0)]
    /\ wpc = [w \in WorkerIds |->
                IF w <= workers THEN IdleWorker ELSE [IdleWorker EXCEPT !.st = "absent"]]
    /\ cpc = [k \in Closers |-> IdleCloser]
    /\ exited = FALSE
    /\ events = <<>>
    /\ calls = <<>>
    /\ accepted = <<>>
    /\ wrote = {}
    /\ sinkCloses = [s \in 1 .. MaxSinks |-> 0]
    /\ fpc = IdleFlush

\* Nothing outside the Logger is in use.
NoExtras == NoParse /\ NoWith

Fresh == FreshLogger /\ NoFile /\ NoSampler /\ NoExtras

\* New(opts...): WithLevel, WithSink, WithFields, WithHook, WithContextExtractor,
\* WithErrorHandler.
InitSync ==
    /\ async = FALSE
    /\ level \in Levels
    /\ \E n \in 0 .. MaxSinks : sinks = [i \in 1 .. n |-> i]
    /\ faulty \in FaultySets
    /\ fields = DefaultFields
    /\ hooks \in HookChains
    /\ extractor \in BOOLEAN
    /\ errorHandler \in BOOLEAN
    /\ timeFormat = RFC3339Nano
    /\ bufferSize = 0
    /\ workers = 0
    /\ sampling = NoSampling
    /\ Fresh

\* NewAsync(New(opts...), WithBufferSize(bufferSize), WithWorkers(workers))
InitAsync ==
    /\ async = TRUE
    /\ level \in AsyncMinLevels
    /\ \E n \in AsyncSinkCounts : sinks = [i \in 1 .. n |-> i]
    /\ faulty \in {{}, {1}}
    /\ fields = DefaultFields
    /\ hooks \in AsyncHookChains
    /\ extractor = TRUE
    /\ errorHandler \in BOOLEAN
    /\ timeFormat \in AsyncTimeFormats
    /\ bufferSize \in 1 .. MaxBuffer
    /\ workers \in 1 .. MaxWorkers
    /\ sampling = NoSampling
    /\ Fresh

\* NewAsync(WithLevel(DebugLevel), ..., WithSampling(&SamplingConfig{Initial: 1,
\* Thereafter: 0, Interval: time.Hour})): every call falls in one window.
InitAsyncSampling ==
    /\ async = TRUE
    /\ level = DebugLevel
    /\ sinks = <<1>>
    /\ faulty = {}
    /\ fields = DefaultFields
    /\ hooks = <<>>
    /\ extractor = FALSE
    /\ errorHandler = FALSE
    /\ timeFormat = RFC3339Nano
    /\ bufferSize \in 1 .. MaxBuffer
    /\ workers \in 1 .. MaxWorkers
    /\ sampling = SamplingConfig(1, 0)
    /\ Fresh

\* No Logger or AsyncLogger is in use.
NoLogger ==
    /\ async = FALSE
    /\ level = InfoLevel
    /\ sinks = <<>>
    /\ faulty = {}
    /\ fields = EmptyMap
    /\ hooks = <<>>
    /\ extractor = FALSE
    /\ errorHandler = FALSE
    /\ timeFormat = RFC3339Nano
    /\ bufferSize = 0
    /\ workers = 0
    /\ sampling = NoSampling
    /\ FreshLogger

\* The goroutines that log concurrently on one AsyncLogger.
Producers == {"p1", "p2"}

\* NewAsync(WithLevel(InfoLevel), two sinks of which the first fails, a hook,
\* an error handler, WithBufferSize, WithWorkers), used by the goroutines of
\* Producers.
InitShared ==
    /\ async = TRUE
    /\ level = InfoLevel
    /\ sinks = <<1, 2>>
    /\ faulty = {1}
    /\ fields = DefaultFields
    /\ hooks = <<"mark">>
    /\ extractor = TRUE
    /\ errorHandler = TRUE
    /\ timeFormat = RFC3339Nano
    /\ bufferSize = MaxBuffer
    /\ workers \in 1 .. MaxWorkers
    /\ sampling = NoSampling
    /\ buffer = <<>>
    /\ bufClosed = FALSE
    /\ closed = FALSE
    /\ pc = [c \in Producers |-> IdleCaller(0)]
    /\ wpc = [w \in WorkerIds |->
                IF w <= workers THEN IdleWorker ELSE [IdleWorker EXCEPT !.st = "absent"]]
    /\ cpc = [k \in Closers |-> IdleCloser]
    /\ exited = FALSE
    /\ events = <<>>
    /\ calls = <<>>
    /\ accepted = <<>>
    /\ wrote = {}
    /\ sinkCloses = [s \in 1 .. MaxSinks |-> 0]
    /\ fpc = IdleFlush
    /\ NoFile
    /\ NoSampler
    /\ NoExtras

\* ------------------------------------------------------------ Logger
\* Logger.SetLevel
SetLevel(l) ==
    /\ ~exited
    /\ level' = l
    /\ UNCHANGED <<config, others, sinks, buffer, bufClosed, closed, pc, wpc, cpc, exited,
                   events, calls, accepted, wrote, sinkCloses>>

\* Logger.AddSink
AddSink ==
    /\ ~exited
    /\ Len(sinks) < MaxSinks
    /\ sinks' = Append(sinks, Len(sinks) + 1)
    /\ UNCHANGED <<config, others, level, buffer, bufClosed, closed, pc, wpc, cpc, exited,
                   events, calls, accepted, wrote, sinkCloses>>

\* Logger.log, first read-locked section: the level gate and the snapshot of the
\* destination list.  On an AsyncLogger only Fatal takes this path.
Log_Gate(c) ==
    /\ ~exited
    /\ pc[c].st = "idle"
    /\ pc[c].n < MaxCalls
    /\ \E lv \in (IF async THEN {FatalLevel} ELSE Levels),
          kv \in CallAttrs("site"), cx \in CallAttrs("ctx") :
         LET p == [pc[c] EXCEPT !.lvl = lv, !.min = level, !.kv = kv, !.ctx = cx,
                                !.snap = sinks]
         IN IF Filtered(lv, level)
            THEN /\ pc' = [pc EXCEPT ![c] = IdleCaller(Count(p.n))]
                 /\ calls' = Append(Begin(calls), CallSummary(c, p, "filtered"))
            ELSE /\ pc' = [pc EXCEPT ![c] = [p EXCEPT !.st = "build"]]
                 /\ calls' = Begin(calls)
    /\ events' = Begin(events)
    /\ UNCHANGED <<config, others, level, sinks, buffer, bufClosed, closed, wpc, cpc, exited,
                   accepted, wrote, sinkCloses>>

\* Logger.log: context attributes, field merge, record, hook chain.
Log_Build(c) ==
    /\ ~exited
    /\ pc[c].st = "build"
    /\ LET p == pc[c]
           keyvals == KeyvalsWithContext(extractor, p.ctx, p.kv)
           entry == NewEntry(<<c, p.n + 1>>, p.lvl, MergeFields(fields, keyvals),
                             timeFormat)
           r == RunHooks(hooks, entry)
       IN IF r.veto
          THEN /\ pc' = [pc EXCEPT ![c] = IdleCaller(Count(p.n))]
               /\ calls' = Append(calls, CallSummary(c, [p EXCEPT !.e = entry], "vetoed"))
          ELSE /\ pc' = [pc EXCEPT ![c] = [p EXCEPT !.st = "write", !.idx = 1, !.e = r.e]]
               /\ calls' = calls
    /\ UNCHANGED <<config, others, level, sinks, buffer, bufClosed, closed, wpc, cpc, exited,
                   events, accepted, wrote, sinkCloses>>

\* Logger.log: one iteration of the fan-out loop.
Log_Write(c) ==
    /\ ~exited
    /\ pc[c].st = "write"
    /\ pc[c].idx <= Len(pc[c].snap)
    /\ LET p == pc[c]
           ok == WriteOk(p.snap[p.idx])
       IN /\ events' = events \o WriteEvents(errorHandler, p.snap[p.idx], p.e, ok)
          /\ pc' = [pc EXCEPT ![c].idx = NextSink(p.idx, Len(p.snap), ok)]
    /\ UNCHANGED <<config, others, level, sinks, buffer, bufClosed, closed, wpc, cpc, exited,
                   calls, accepted, wrote, sinkCloses>>

\* Logger.log: the loop is over; os.Exit(1) on Fatal, else return.
Log_Return(c) ==
    /\ ~exited
    /\ pc[c].st = "write"
    /\ pc[c].idx > Len(pc[c].snap)
    /\ exited' = (pc[c].lvl = FatalLevel)
    /\ calls' = Append(calls, CallSummary(c, pc[c], "delivered"))
    /\ pc' = [pc EXCEPT ![c] = IdleCaller(Count(pc[c].n))]
    /\ UNCHANGED <<config, others, level, sinks, buffer, bufClosed, closed, wpc, cpc, events,
                   accepted, wrote, sinkCloses>>

\* ------------------------------------------------------------ AsyncLogger
Receive_peek(buf) == buf

\* for entry := range a.buffer: a receive takes the first queued entry out of
\* the channel
Receive(buf) == Tail(buf)

\* AsyncLogger.logAsync up to the record: level gate and field merge.
LogAsync_Gate(c) ==
    /\ ~exited
    /\ pc[c].st = "idle"
    /\ pc[c].n < MaxCalls
    /\ \E lv \in AsyncCallLevels, kv \in CallAttrs("site"), cx \in CallAttrs("ctx") :
         LET p == [pc[c] EXCEPT !.lvl = lv, !.min = level, !.kv = kv, !.ctx = cx]
             entry == NewEntry(<<c, p.n + 1>>, lv, MergeFields(fields, kv), RFC3339Nano)
         IN IF Filtered(lv, level)
            THEN /\ pc' = [pc EXCEPT ![c] = IdleCaller(p.n + 1)]
                 /\ calls' = Append(calls, CallSummary(c, p, "filtered"))
            ELSE /\ pc' = [pc EXCEPT ![c] = [p EXCEPT !.st = "send", !.e = entry]]
                 /\ calls' = calls
    /\ UNCHANGED <<config, others, level, sinks, buffer, bufClosed, closed, wpc, cpc, exited,
                   events, accepted, wrote, sinkCloses>>

\* AsyncLogger.logAsync: the non-blocking send.  A send on a closed channel panics.
LogAsync_Send(c) ==
    /\ ~exited
    /\ pc[c].st = "send"
    /\ IF bufClosed
       THEN /\ pc' = [pc EXCEPT ![c] = [IdleCaller(pc[c].n + 1) EXCEPT !.st = "panicked"]]
            /\ calls' = Append(calls, CallSummary(c, pc[c], "panicked"))
            /\ UNCHANGED <<buffer, accepted>>
       ELSE /\ buffer' = TrySend(buffer, pc[c].e, bufferSize)
            /\ accepted' = IF Len(buffer) < bufferSize
                           THEN Append(accepted, [e |-> pc[c].e, ns |-> Len(sinks),
                                                  early |-> ~closed])
                           ELSE accepted
            /\ calls' = Append(calls, CallSummary(c, pc[c],
                                 IF Len(buffer) < bufferSize THEN "enqueued" ELSE "dropped"))
            /\ pc' = [pc EXCEPT ![c] = IdleCaller(pc[c].n + 1)]
    /\ UNCHANGED <<config, others, level, sinks, bufClosed, closed, wpc, cpc, exited, events,
                   wrote, sinkCloses>>

\* AsyncLogger.worker: for entry := range a.buffer, with the snapshot of the
\* destinations and the error handler.
Worker_Recv(w) ==
    /\ ~exited
    /\ wpc[w].st = "recv"
    /\ buffer # <<>>
    /\ buffer' = Receive(buffer)
    /\ wpc' = [wpc EXCEPT ![w] =
                 IF sinks = <<>> THEN IdleWorker
                 ELSE [st |-> "write", e |-> Head(buffer), snap |-> sinks,
                       handler |-> errorHandler, idx |-> 1]]
    /\ UNCHANGED <<config, others, level, sinks, bufClosed, closed, pc, cpc, exited, events,
                   calls, accepted, wrote, sinkCloses>>

\* AsyncLogger.worker: one iteration of the fan-out loop; after the last
\* destination the worker is back at the range over the channel.
Worker_Write(w) ==
    /\ ~exited
    /\ wpc[w].st = "write"
    /\ LET p == wpc[w]
           ok == WriteOk(p.snap[p.idx])
           next == NextSink(p.idx, Len(p.snap), ok)
       IN /\ wrote' = wrote \cup {WorkerWrite(p.e, p.snap[p.idx], ok,
                                               HandlerCalls(p.handler, ok))}
          /\ wpc' = [wpc EXCEPT ![w] = IF next > Len(p.snap) THEN IdleWorker
                                        ELSE [p EXCEPT !.idx = next]]
    /\ UNCHANGED <<config, others, level, sinks, buffer, bufClosed, closed, pc, cpc, exited,
                   events, calls, accepted, sinkCloses>>

\* AsyncLogger.worker: the channel is closed and drained; wg.Done().
Worker_Done(w) ==
    /\ ~exited
    /\ wpc[w].st = "recv"
    /\ buffer = <<>>
    /\ bufClosed
    /\ wpc' = [wpc EXCEPT ![w].st = "done"]
    /\ UNCHANGED <<config, others, level, sinks, buffer, bufClosed, closed, pc, cpc, exited,
                   events, calls, accepted, wrote, sinkCloses>>

WorkersFinished_nowait == TRUE

\* The closers are interchangeable goroutines: they are named in the order in
\* which they call Close.
Earlier(j, k) == j = "k1" /\ k = "k2"

\* a.wg.Wait() has returned: every started worker has called wg.Done()
WorkersFinished == \A w \in WorkerIds : wpc[w].st \in {"done", "absent"}

\* AsyncLogger.Close: the closeMu section.
Close_Enter(k) ==
    /\ ~exited
    /\ cpc[k].st = "idle"
    /\ \A j \in Closers : Earlier(j, k) => cpc[j].st # "idle"
    /\ IF AlreadyClosed(closed)
       THEN /\ cpc' = [cpc EXCEPT ![k] = [st |-> "returned", via |-> "noop", ret |-> 0]]
            /\ closed' = closed
       ELSE /\ cpc' = [cpc EXCEPT ![k] = [st |-> "closeChan", via |-> "none", ret |-> 0]]
            /\ closed' = TRUE
    /\ UNCHANGED <<config, others, level, sinks, buffer, bufClosed, pc, wpc, exited, events,
                   calls, accepted, wrote, sinkCloses>>

\* AsyncLogger.Close: close(a.buffer).  Closing a closed channel panics.
Close_Chan(k) ==
    /\ ~exited
    /\ cpc[k].st = "closeChan"
    /\ IF bufClosed
       THEN /\ cpc' = [cpc EXCEPT ![k].st = "panicked"]
            /\ bufClosed' = bufClosed
       ELSE /\ cpc' = [cpc EXCEPT ![k].st = "wait"]
            /\ bufClosed' = TRUE
    /\ UNCHANGED <<config, others, level, sinks, buffer, closed, pc, wpc, exited, events,
                   calls, accepted, wrote, sinkCloses>>

\* AsyncLogger.Close: select { case <-c: ... case <-time.After(a.shutdownTimeout): ... }
Close_Wait(k) ==
    /\ ~exited
    /\ cpc[k].st = "wait"
    /\ \/ /\ WorkersFinished
          /\ cpc' = [cpc EXCEPT ![k].st = "closeSinks", ![k].via = "drained"]
       \/ cpc' = [cpc EXCEPT ![k].st = "closeSinks", ![k].via = "timeout"]
    /\ UNCHANGED <<config, others, level, sinks, buffer, bufClosed, closed, pc, wpc, exited,
                   events, calls, accepted, wrote, sinkCloses>>

\* Logger.Close: lastErr after closing every destination in order (0 is nil).
LastCloseError(ss) ==
    LET bad == {i \in 1 .. Len(ss) : ss[i] \in faulty}
    IN IF bad = {} THEN 0 ELSE ss[CHOOSE i \in bad : \A j \in bad : j <= i]

\* AsyncLogger.Close: return a.Logger.Close(), which closes every destination.
Close_Sinks(k) ==
    /\ ~exited
    /\ cpc[k].st = "closeSinks"
    /\ sinkCloses' = [s \in DOMAIN sinkCloses |->
                        sinkCloses[s] + Cardinality({i \in 1 .. Len(sinks) : sinks[i] = s})]
    /\ cpc' = [cpc EXCEPT ![k].st = "returned", ![k].ret = LastCloseError(sinks)]
    /\ UNCHANGED <<config, others, level, sinks, buffer, bufClosed, closed, pc, wpc, exited,
                   events, calls, accepted, wrote>>

BufferEmpty_atMostOne(buf) == Len(buf) <= 1

BufferEmpty_never(buf) == FALSE

\* for len(a.buffer) > 0 { time.Sleep(...) }: the loop ends when this holds
BufferEmpty(buf) == Len(buf) = 0

\* AsyncLogger.Flush is called.
Flush_Call ==
    /\ ~exited
    /\ fpc.st = "idle"
    /\ fpc' = [st |-> "poll", mark |-> Len(accepted)]
    /\ UNCHANGED <<loggerVars, extraVars, fileVars, samplerVars>>

\* AsyncLogger.Flush: a poll finds the queue empty and Flush returns; any
\* other poll sleeps and changes nothing.
Flush_Return ==
    /\ ~exited
    /\ fpc.st = "poll"
    /\ BufferEmpty(buffer)
    /\ fpc' = [fpc EXCEPT !.st = "returned"]
    /\ UNCHANGED <<loggerVars, extraVars, fileVars, samplerVars>>

\* NewFile(path, WithMaxSizeMB, WithMaxBackups) on a path that holds no file or
\* a file written earlier, in a directory without backups.
InitFile ==
    /\ async = FALSE
    /\ level = InfoLevel
    /\ sinks = <<>>
    /\ faulty = {}
    /\ fields = EmptyMap
    /\ hooks = <<>>
    /\ extractor = FALSE
    /\ errorHandler = FALSE
    /\ timeFormat = RFC3339Nano
    /\ bufferSize = 0
    /\ workers = 0
    /\ sampling = NoSampling
    /\ FreshLogger
    /\ \E old \in {<<>>} \cup {<<Rec(0, n)>> : n \in RecordLens} :
         /\ disk = [i \in BackupIndexes |-> IF i = 0 THEN File(old) ELSE Absent]
         /\ fsize = Bytes(old)
    /\ maxSize \in FileMaxSizes
    /\ maxBackups \in 0 .. MaxBackups
    /\ fhist = <<>>
    /\ flast = NoWrite
    /\ fwrites = 0
    /\ fhandle = "open"
    /\ fret = NoError
    /\ fmu = "none"
    /\ wr = <<>>
    /\ NoSampler
    /\ NoExtras

\* FileSink.Write of a record of len bytes, under s.mu: rotateIfNeededLocked,
\* then s.file.Write(data) and s.size += len(data).
FileSink_Write(len) ==
    /\ fwrites < MaxWrites
    /\ LET rec == Rec(fwrites + 1, len)
           rot == NeedsRotation(fsize, len, maxSize)
           d == IF rot THEN RotateFiles(disk, maxBackups) ELSE disk
       IN /\ disk' = [d EXCEPT ![0] = File(Append(d[0].data, rec))]
          /\ fsize' = (IF rot THEN 0 ELSE fsize) + len
          /\ fhist' = IF rot THEN <<disk[0].data>> \o fhist ELSE fhist
          /\ flast' = [rotated |-> rot, before |-> disk[0], size |-> fsize, rec |-> rec]
    /\ fwrites' = fwrites + 1
    /\ UNCHANGED <<loggerVars, extraVars, flushVars, samplerVars, maxSize, maxBackups,
                   faultVars, lockVars>>

\* FileSink.Write of a record of len bytes, under s.mu, with the I/O
\* operations in F failing.
FileSink_WriteFailing(len, F) ==
    /\ fwrites < MaxWrites
    /\ LET rec == Rec(fwrites + 1, len)
           r == WriteOutcome(Sink(disk, fsize, fhandle), rec, maxSize, maxBackups, F)
       IN /\ disk' = r.st.disk
          /\ fsize' = r.st.size
          /\ fhandle' = r.st.handle
          /\ fret' = [err |-> r.err, failed |-> r.failed, faults |-> F,
                      cut |-> fret.cut \/ "open" \in r.failed]
          /\ fhist' = IF r.rotated THEN <<disk[0].data>> \o fhist ELSE fhist
          /\ flast' = [rotated |-> r.rotated, before |-> disk[0], size |-> fsize, rec |-> rec]
    /\ fwrites' = fwrites + 1
    /\ UNCHANGED <<loggerVars, extraVars, flushVars, samplerVars, maxSize, maxBackups,
                   lockVars>>

\* NewFile(path, WithMaxSizeMB, WithMaxBackups), shared by the writers.
InitFileShared ==
    /\ NoLogger
    /\ \E old \in {<<>>} \cup {<<Rec(0, n)>> : n \in RecordLens} :
         /\ disk = [i \in BackupIndexes |-> IF i = 0 THEN File(old) ELSE Absent]
         /\ fsize = Bytes(old)
    /\ maxSize \in FileMaxSizes
    /\ maxBackups \in 0 .. MaxBackups
    /\ fhist = <<>>
    /\ flast = NoWrite
    /\ fwrites = 0
    /\ fhandle = "open"
    /\ fret = NoError
    /\ fmu = "none"
    /\ wr = [w \in Writers |-> IdleWriter(0)]
    /\ NoSampler
    /\ NoExtras

\* FileSink.Write, writer w: s.mu.Lock() with the formatted record in hand
Write_Lock(w, len) ==
    /\ wr[w].st = "idle"
    /\ fwrites < MaxWrites
    /\ MutexFree(fmu)
    /\ fmu' = w
    /\ fwrites' = fwrites + 1
    /\ wr' = [wr EXCEPT ![w].st = "locked", ![w].rec = Rec(fwrites + 1, len)]
    /\ UNCHANGED <<loggerVars, extraVars, flushVars, samplerVars, disk, fsize, maxSize,
                   maxBackups, fhist, flast, faultVars>>

\* rotateIfNeededLocked, writer w: the two size tests
Write_Check(w) ==
    /\ wr[w].st = "locked"
    /\ wr' = [wr EXCEPT ![w].st = "checked",
                        ![w].rot = NeedsRotation(fsize, wr[w].rec.len, maxSize),
                        ![w].size = fsize,
                        ![w].disk = disk]
    /\ UNCHANGED <<loggerVars, extraVars, flushVars, samplerVars, disk, fsize, maxSize,
                   maxBackups, fhist, flast, fwrites, faultVars, fmu>>

\* rotateIfNeededLocked, writer w: close, move or delete, reopen, s.size = 0
Write_Rotate(w) ==
    /\ wr[w].st = "checked"
    /\ wr[w].rot
    /\ disk' = RotateFiles(disk, maxBackups)
    /\ fsize' = 0
    /\ fhist' = <<disk[0].data>> \o fhist
    /\ wr' = [wr EXCEPT ![w].st = "rotated"]
    /\ UNCHANGED <<loggerVars, extraVars, flushVars, samplerVars, maxSize, maxBackups,
                   flast, fwrites, faultVars, fmu>>

\* FileSink.Write, writer w: s.file.Write(data); s.size += len(data)
Write_Append(w) ==
    /\ wr[w].st = (IF wr[w].rot THEN "rotated" ELSE "checked")
    /\ disk' = [disk EXCEPT ![0] = File(Append(disk[0].data, wr[w].rec))]
    /\ fsize' = fsize + wr[w].rec.len
    /\ flast' = [rotated |-> wr[w].rot, before |-> wr[w].disk[0], size |-> wr[w].size,
                 rec |-> wr[w].rec]
    /\ wr' = [wr EXCEPT ![w].st = "appended"]
    /\ UNCHANGED <<loggerVars, extraVars, flushVars, samplerVars, maxSize, maxBackups,
                   fhist, fwrites, faultVars, fmu>>

\* FileSink.Write, writer w: the deferred s.mu.Unlock()
Write_Unlock(w) ==
    /\ wr[w].st = "appended"
    /\ fmu' = "none"
    /\ wr' = [wr EXCEPT ![w] = IdleWriter(wr[w].n + 1)]
    /\ UNCHANGED <<loggerVars, extraVars, flushVars, samplerVars, disk, fsize, maxSize,
                   maxBackups, fhist, flast, fwrites, faultVars>>

\* NewSampled(logger, &SamplingConfig{Initial, Thereafter, Interval})
InitSampler ==
    /\ async = FALSE
    /\ level = DebugLevel
    /\ sinks = <<>>
    /\ faulty = {}
    /\ fields = EmptyMap
    /\ hooks = <<>>
    /\ extractor = FALSE
    /\ errorHandler = FALSE
    /\ timeFormat = RFC3339Nano
    /\ bufferSize = 0
    /\ workers = 0
    /\ sampling = NoSampling
    /\ FreshLogger
    /\ NoFile
    /\ sInitial \in Initials
    /\ sThereafter \in Thereafters
    /\ sInterval \in Intervals
    /\ counts = [k \in SampleKeys |-> NoCounter]
    /\ now = 0
    /\ admitted = [k \in SampleKeys |-> {}]
    /\ slast = NoCall
    /\ NoExtras

\* Time passes.
Tick ==
    /\ now < MaxTime
    /\ now' = now + 1
    /\ UNCHANGED <<loggerVars, extraVars, flushVars, fileVars, sInitial, sThereafter, sInterval,
                   counts, admitted, slast>>

\* SampledLogger.Debug / Info / Warn / Error / Fatal with message key: the
\* sampled levels are forwarded to the base logger when shouldLog(key) allows,
\* the others always.
SampledLogger_Log(key, lv) ==
    /\ counts[key].count < MaxCount
    /\ IF Sampled(lv)
       THEN IF NewWindow(counts[key], now)
            THEN /\ counts' = [counts EXCEPT ![key] = Counter(1, now + sInterval)]
                 /\ admitted' = [admitted EXCEPT ![key] = {1}]
                 /\ slast' = [key |-> key, lv |-> lv, forwarded |-> TRUE,
                              before |-> counts]
            ELSE LET n == counts[key].count + 1
                     ok == AdmitInWindow(n, sInitial, sThereafter)
                 IN /\ counts' = [counts EXCEPT ![key].count = n]
                    /\ admitted' = [admitted EXCEPT ![key] =
                                       IF ok THEN @ \cup {n} ELSE @]
                    /\ slast' = [key |-> key, lv |-> lv, forwarded |-> ok,
                                 before |-> counts]
       ELSE /\ slast' = [key |-> key, lv |-> lv, forwarded |-> TRUE, before |-> counts]
            /\ UNCHANGED <<counts, admitted>>
    /\ UNCHANGED <<loggerVars, extraVars, flushVars, fileVars, sInitial, sThereafter, sInterval, now>>

\* SampledLogger.DebugContext / InfoContext / WarnContext / ErrorContext with
\* message key: SampledLogger declares no such methods, the calls are those of
\* the embedded *Logger and go to Logger.log.
SampledLogger_LogContext(key, lv) ==
    /\ slast' = [key |-> key, lv |-> lv, forwarded |-> TRUE, before |-> counts]
    /\ UNCHANGED <<loggerVars, extraVars, flushVars, fileVars, sInitial, sThereafter,
                   sInterval, counts, now, admitted>>

\* A Logger that is constructed and not used, with no wrapper and no FileSink:
\* the setting of the operations that take no Logger.
Unused ==
    /\ async = FALSE
    /\ level = InfoLevel
    /\ sinks = <<>>
    /\ faulty = {}
    /\ fields = EmptyMap
    /\ hooks = <<>>
    /\ extractor = FALSE
    /\ errorHandler = FALSE
    /\ timeFormat = RFC3339Nano
    /\ bufferSize = 0
    /\ workers = 0
    /\ sampling = NoSampling
    /\ FreshLogger
    /\ NoFile
    /\ NoSampler

\* A string is about to be parsed.
InitParse ==
    /\ Unused
    /\ pin \in ParseInputs
    /\ pout = -1
    /\ NoWith

\* level := ParseLevel(pin)
Parse ==
    /\ pout = -1
    /\ pout' = ParseLevel(pin)
    /\ UNCHANGED <<loggerVars, flushVars, fileVars, samplerVars, withVars, pin>>

\* The parent of With: New(WithLevel, WithSink, WithFields, WithHook,
\* WithContextExtractor, WithErrorHandler, WithTimeFormat).
WithMinLevels == {DebugLevel, WarnLevel}
WithCallLevels == {InfoLevel, ErrorLevel}

InitWith ==
    /\ async = FALSE
    /\ level \in WithMinLevels
    /\ \E n \in 0 .. MaxSinks : sinks = [i \in 1 .. n |-> i]
    /\ faulty \in FaultySets
    /\ fields = DefaultFields
    /\ hooks \in HookChains
    /\ extractor \in BOOLEAN
    /\ errorHandler \in BOOLEAN
    /\ timeFormat \in AsyncTimeFormats
    /\ bufferSize = 0
    /\ workers = 0
    /\ sampling = NoSampling
    /\ FreshLogger
    /\ NoFile
    /\ NoSampler
    /\ NoParse
    /\ NoWith

\* New(WithLevel(DebugLevel), WithSink(s), WithHook(h1), ..., WithHook(hn)):
\* every chain of up to MaxHooks hooks.
MaxHooks == 4
AllHookChains ==
    UNION {[1 .. n -> HookKinds \cup {"stamp"}] : n \in 0 .. MaxHooks}

InitHooks ==
    /\ async = FALSE
    /\ level = DebugLevel
    /\ sinks = <<1>>
    /\ faulty = {}
    /\ fields = DefaultFields
    /\ hooks \in AllHookChains
    /\ extractor = TRUE
    /\ errorHandler = FALSE
    /\ timeFormat = RFC3339Nano
    /\ bufferSize = 0
    /\ workers = 0
    /\ sampling = NoSampling
    /\ FreshLogger
    /\ NoFile
    /\ NoSampler
    /\ NoParse
    /\ NoWith

\* New(WithSink(1), ..., WithSink(n)) with up to MaxBuilt destinations.
MaxBuilt == 3
MaxAdds == 3           \* AddSink calls made on the parent and on the child

InitAlias ==
    /\ async = FALSE
    /\ level = InfoLevel
    /\ \E n \in 0 .. MaxBuilt :
         /\ heap = Built(n)
         /\ sinks = View(Built(n), Built(n).p)
    /\ faulty = {}
    /\ fields = DefaultFields
    /\ hooks = <<>>
    /\ extractor = FALSE
    /\ errorHandler = FALSE
    /\ timeFormat = RFC3339Nano
    /\ bufferSize = 0
    /\ workers = 0
    /\ sampling = NoSampling
    /\ FreshLogger
    /\ NoFile
    /\ NoSampler
    /\ NoParse
    /\ child = NoChild
    /\ clog = NoLogCall

\* The parent Logger as a value.
Parent == LoggerOf(level, sinks, fields, hooks, extractor, errorHandler, timeFormat)

\* child := l.With(keyvals...)
With(keyvals) ==
    /\ ~child.made
    /\ LET m == WithMaps(fields, keyvals)
       IN /\ child' = [made |-> TRUE, args |-> keyvals, l |-> Derived(Parent, m.child)]
          /\ fields' = m.parent
    /\ heap' = [heap EXCEPT !.c = heap.p]
    /\ UNCHANGED <<async, faulty, hooks, extractor, errorHandler, timeFormat,
                   bufferSize, workers, sampling, level, sinks, buffer, bufClosed, closed, pc,
                   wpc, cpc, exited, events, calls, accepted, wrote, sinkCloses,
                   flushVars, fileVars, samplerVars, parseVars, clog>>

\* l.AddSink(s) on the parent ("p") or on the logger With returned ("c"):
\* l.sinks = append(l.sinks, s).  Each logger then reads its own slice.
AddSinkOn(who) ==
    /\ who = "c" => child.made
    /\ heap.adds < MaxAdds
    /\ LET h == AppendSink(heap, who, NewSinkId(who, heap.adds))
       IN /\ heap' = h
          /\ sinks' = View(h, h.p)
          /\ child' = IF child.made THEN [child EXCEPT !.l.sinks = View(h, h.c)] ELSE child
    /\ UNCHANGED <<config, level, buffer, bufClosed, closed, pc, wpc, cpc, exited, events,
                   calls, accepted, wrote, sinkCloses, flushVars, fileVars, samplerVars,
                   parseVars, clog>>

\* One log call on the parent ("parent") or on the logger With returned
\* ("child").
LogOn(who, lv, kv, ctx) ==
    /\ who = "child" => child.made
    /\ clog' = [who |-> who, lvl |-> lv, kv |-> kv, ctx |-> ctx,
                r |-> LogOutcome(IF who = "child" THEN child.l ELSE Parent,
                                 <<who, 1>>, lv, kv, ctx)]
    /\ UNCHANGED <<loggerVars, flushVars, fileVars, samplerVars, parseVars, child, heap>>

\* A synchronous Logger: concurrent SetLevel and AddSink, and log calls.
NextSync ==
    \/ \E l \in Levels : SetLevel(l)
    \/ AddSink
    \/ \E c \in Callers : Log_Gate(c)
    \/ \E c \in Callers : Log_Build(c)
    \/ \E c \in Callers : Log_Write(c)
    \/ \E c \in Callers : Log_Return(c)

\* An AsyncLogger: logAsync calls, Fatal calls (which take Logger.log), the
\* workers and concurrent Close calls.
NextAsync ==
    \/ \E c \in Callers : Log_Gate(c)
    \/ \E c \in Callers : Log_Build(c)
    \/ \E c \in Callers : Log_Write(c)
    \/ \E c \in Callers : Log_Return(c)
    \/ \E c \in Callers : LogAsync_Gate(c)
    \/ \E c \in Callers : LogAsync_Send(c)
    \/ \E w \in WorkerIds : Worker_Recv(w)
    \/ \E w \in WorkerIds : Worker_Write(w)
    \/ \E w \in WorkerIds : Worker_Done(w)
    \/ \E k \in Closers : Close_Enter(k)
    \/ \E k \in Closers : Close_Chan(k)
    \/ \E k \in Closers : Close_Wait(k)
    \/ \E k \in Closers : Close_Sinks(k)

\* An AsyncLogger in service: logAsync calls and the workers.
NextService ==
    \/ \E c \in Callers : LogAsync_Gate(c)
    \/ \E c \in Callers : LogAsync_Send(c)
    \/ \E w \in WorkerIds : Worker_Recv(w)
    \/ \E w \in WorkerIds : Worker_Write(w)

SpecAsyncSampling == InitAsyncSampling /\ [][NextService]_vars

\* Goroutines logging concurrently on one AsyncLogger (logAsync, and Fatal,
\* which takes Logger.log) and its workers.
NextShared ==
    \/ \E c \in Producers : Log_Gate(c)
    \/ \E c \in Producers : Log_Build(c)
    \/ \E c \in Producers : Log_Write(c)
    \/ \E c \in Producers : Log_Return(c)
    \/ \E c \in Producers : LogAsync_Gate(c)
    \/ \E c \in Producers : LogAsync_Send(c)
    \/ \E w \in WorkerIds : Worker_Recv(w)
    \/ \E w \in WorkerIds : Worker_Write(w)

SpecShared == InitShared /\ [][NextShared]_vars

SpecSync == InitSync /\ [][NextSync]_vars

SpecAsync == InitAsync /\ [][NextAsync]_vars

\* An AsyncLogger in service: logAsync calls, the workers and one Flush call.
NextFlush ==
    \/ \E c \in Callers : LogAsync_Gate(c)
    \/ \E c \in Callers : LogAsync_Send(c)
    \/ \E w \in WorkerIds : Worker_Recv(w)
    \/ \E w \in WorkerIds : Worker_Write(w)
    \/ Flush_Call
    \/ Flush_Return

SpecFlush == InitAsync /\ [][NextFlush]_vars

\* The same with workers that keep running: a worker that can receive or has a
\* Write to make is eventually scheduled, every Write returns, and the polling
\* loop of Flush is scheduled.  The producer makes finitely many calls and may
\* stop at any point.
SpecFlushFair ==
    /\ InitAsync
    /\ [][NextFlush]_vars
    /\ WF_vars(\E w \in WorkerIds : Worker_Recv(w))
    /\ WF_vars(\E w \in WorkerIds : Worker_Write(w))
    /\ WF_vars(Flush_Return)

\* The destinations that are FileSinks: Write holds s.mu for the whole call and
\* Close takes s.mu.  The others are StdoutSinks, whose Close takes no lock.
FileSinks == {1}

\* s.mu of destination s is held: a worker is inside s.Write, in an I/O call
\* that does not return.
Held(s) == \E w \in WorkerIds : wpc[w].st = "blocked" /\ wpc[w].snap[wpc[w].idx] = s

\* AsyncLogger.worker: s.Write(entry) takes s.mu and its I/O call never returns.
Worker_Block(w) ==
    /\ ~exited
    /\ wpc[w].st = "write"
    /\ ~Held(wpc[w].snap[wpc[w].idx])
    /\ wpc' = [wpc EXCEPT ![w].st = "blocked"]
    /\ UNCHANGED <<config, others, level, sinks, buffer, bufClosed, closed, pc, cpc, exited,
                   events, calls, accepted, wrote, sinkCloses>>

\* AsyncLogger.worker: a Write on a destination whose s.mu is free.
Worker_WriteFree(w) ==
    /\ wpc[w].st = "write"
    /\ ~Held(wpc[w].snap[wpc[w].idx])
    /\ Worker_Write(w)

\* Logger.Close: every s.Close() of the loop returns; the Close of a FileSink
\* waits for s.mu.
CloseCanLock(ss) == \A i \in 1 .. Len(ss) : ss[i] \in FileSinks => ~Held(ss[i])

\* AsyncLogger.Close: return a.Logger.Close(), with the destinations' mutexes.
\* While a FileSink's mutex is held the call stays in the loop of Logger.Close.
Close_SinksFree(k) ==
    /\ CloseCanLock(sinks)
    /\ Close_Sinks(k)

\* NewAsync(New(WithSink(file), WithSink(stdout), WithHook(mark)),
\* WithBufferSize(bufferSize), WithWorkers(workers))
InitShutdown ==
    /\ async = TRUE
    /\ level = InfoLevel
    /\ sinks = <<1, 2>>
    /\ faulty = {}
    /\ fields = DefaultFields
    /\ hooks = <<"mark">>
    /\ extractor = TRUE
    /\ errorHandler = FALSE
    /\ timeFormat = RFC3339Nano
    /\ bufferSize \in 1 .. MaxBuffer
    /\ workers \in 1 .. MaxWorkers
    /\ sampling = NoSampling
    /\ Fresh

\* An AsyncLogger whose workers may block in a Write, and Close calls.
NextShutdown ==
    \/ \E c \in Callers : LogAsync_Gate(c)
    \/ \E c \in Callers : LogAsync_Send(c)
    \/ \E w \in WorkerIds : Worker_Recv(w)
    \/ \E w \in WorkerIds : Worker_WriteFree(w)
    \/ \E w \in WorkerIds : Worker_Block(w)
    \/ \E w \in WorkerIds : Worker_Done(w)
    \/ \E k \in Closers : Close_Enter(k)
    \/ \E k \in Closers : Close_Chan(k)
    \/ \E k \in Closers : Close_Wait(k)
    \/ \E k \in Closers : Close_SinksFree(k)

\* The goroutine calling Close is scheduled, its timer fires, and every worker
\* that is not inside a blocked Write keeps running.
SpecShutdown ==
    /\ InitShutdown
    /\ [][NextShutdown]_vars
    /\ \A k \in Closers : WF_vars(Close_Wait(k)) /\ WF_vars(Close_SinksFree(k))
    /\ \A w \in WorkerIds : WF_vars(Worker_Recv(w) \/ Worker_Done(w))

\* A FileSink receiving Writes.
NextFile == \E len \in RecordLens : FileSink_Write(len)

SpecFile == InitFile /\ [][NextFile]_vars

\* One FileSink and the workers of an AsyncLogger writing to it.
NextFileShared ==
    \/ \E w \in Writers, len \in RecordLens : Write_Lock(w, len)
    \/ \E w \in Writers : Write_Check(w)
    \/ \E w \in Writers : Write_Rotate(w)
    \/ \E w \in Writers : Write_Append(w)
    \/ \E w \in Writers : Write_Unlock(w)

SpecFileShared == InitFileShared /\ [][NextFileShared]_vars

\* A FileSink receiving Writes during which I/O operations can fail.
NextFileFailing == \E len \in RecordLens, F \in FaultSets : FileSink_WriteFailing(len, F)

SpecFileFailing == InitFile /\ [][NextFileFailing]_vars

\* A Logger, the logger derived from it by With, and log calls on both.
NextWith ==
    \/ \E keyvals \in WithArgLists : With(keyvals)
    \/ \E who \in {"parent", "child"}, lv \in WithCallLevels,
          kv \in AttrLists("site"), ctx \in AttrLists("ctx") : LogOn(who, lv, kv, ctx)

SpecWith == InitWith /\ [][NextWith]_vars

\* A Logger, the logger derived from it by With, and AddSink calls on both,
\* before and after the derivation.
NextAlias ==
    \/ \E keyvals \in WithArgLists : With(keyvals)
    \/ \E who \in {"p", "c"} : AddSinkOn(who)

SpecAlias == InitAlias /\ [][NextAlias]_vars

\* Log calls on a Logger with a chain of hooks.
NextHooks ==
    \E lv \in WithCallLevels, kv \in AttrLists("site"), ctx \in AttrLists("ctx") :
        LogOn("parent", lv, kv, ctx)

SpecHooks == InitHooks /\ [][NextHooks]_vars

NextParse == Parse

SpecParse == InitParse /\ [][NextParse]_vars

\* A SampledLogger receiving calls while time passes.
SampledCallLevels == {InfoLevel, ErrorLevel, FatalLevel}

NextSampler ==
    \/ Tick
    \/ \E key \in SampleKeys, lv \in SampledCallLevels : SampledLogger_Log(key, lv)

\* A SampledLogger called through its own methods and through the Context
\* methods of the embedded Logger.
NextSamplerContext ==
    \/ Tick
    \/ \E key \in SampleKeys, lv \in SampledCallLevels : SampledLogger_Log(key, lv)
    \/ \E key \in SampleKeys, lv \in SampledCallLevels : SampledLogger_LogContext(key, lv)

SpecSamplerContext == InitSampler /\ [][NextSamplerContext]_vars

SpecSampler == InitSampler /\ [][NextSampler]_vars

\* ------------------------------------------------------------ histories
IsWrite(ev) == ev.t = "write"

\* The destinations written to, in order, by the synchronous fan-out of record id.
WriteSinks(id) ==
    LET ws == SelectSeq(events, IsWrite)
        mine == SelectSeq(ws, LAMBDA ev : ev.e.id = id)
    IN [i \in 1 .. Len(mine) |-> mine[i].sink]

AttrKeys(attrs) == {attrs[i].Key : i \in DOMAIN attrs}

HasVeto == \E i \in DOMAIN hooks : hooks[i] = "veto"

ReachedSend(cs) == cs.out \in {"enqueued", "dropped"}

\* The calls that passed the gate and reached the send on an open queue.
Passing == SelectSeq(calls, ReachedSend)

\* No worker has taken a record from the queue yet.
NoDequeue == wrote = {} /\ \A w \in WorkerIds : wpc[w].st # "write"

Min(a, b) == IF a < b THEN a ELSE b

\* ------------------------------------------------------------ claims

\* C1: level gate of the synchronous Logger.  A call whose level R is below the
\* minimum level L read at its start is filtered and writes nothing; a call with
\* R >= L (R = L included) is never filtered, and unless a hook vetoes it, it is
\* written to every destination registered at the gate.
LevelGate ==
    /\ \A c \in Callers : pc[c].st \in {"build", "write"} => pc[c].lvl >= pc[c].min
    /\ \A i \in DOMAIN calls :
         LET cs == calls[i]
         IN /\ cs.out = "filtered" => cs.lvl < cs.min /\ WriteSinks(cs.id) = <<>>
            /\ cs.out = "delivered" => cs.lvl >= cs.min /\ WriteSinks(cs.id) = cs.snap

\* A call at exactly the minimum level has been written to at least one destination.
LevelGateWitness ==
    \E i \in DOMAIN calls :
        /\ calls[i].out = "delivered"
        /\ calls[i].lvl = calls[i].min
        /\ calls[i].snap # <<>>
        /\ WriteSinks(calls[i].id) = calls[i].snap

\* C2: hook veto.  When a hook of the chain returns an error, the record reaches
\* no destination and the error handler is not invoked: the call ends "vetoed"
\* with no Write and no handler event, whatever the number of destinations.
HookVeto ==
    HasVeto =>
        /\ events = <<>>
        /\ \A c \in Callers : pc[c].st # "write"
        /\ \A i \in DOMAIN calls : calls[i].out \in {"filtered", "vetoed"}

\* A vetoed call on a logger with a failing first destination and a handler.
HookVetoWitness ==
    \E i \in DOMAIN calls :
        /\ calls[i].out = "vetoed"
        /\ calls[i].snap # <<>>
        /\ calls[i].snap[1] \in faulty
        /\ errorHandler
        /\ events = <<>>

\* C3: fan-out order.  The Writes of one synchronous call go to the destinations
\* in registration order, one after the other, and a failing Write does not stop
\* the loop: a finished call has written to every destination of its snapshot.
FanOutOrder ==
    /\ \A c \in Callers :
         pc[c].st = "write" =>
             WriteSinks(pc[c].e.id) = SubSeq(pc[c].snap, 1, pc[c].idx - 1)
    /\ \A i \in DOMAIN calls :
         calls[i].out = "delivered" => WriteSinks(calls[i].id) = calls[i].snap

\* A finished call over the largest destination list whose first Write failed.
FanOutOrderWitness ==
    \E i \in DOMAIN calls :
        /\ calls[i].out = "delivered"
        /\ Len(calls[i].snap) = MaxSinks
        /\ calls[i].snap[1] \in faulty
        /\ calls[i].snap[MaxSinks] \notin faulty
        /\ Len(events) >= MaxSinks
        /\ events[1].t = "write" /\ ~events[1].ok
        /\ events[Len(events)].t = "write" /\ events[Len(events)].ok

\* C4: destination write errors.  In the synchronous fan-out every failing Write
\* is followed at once by exactly one handler invocation with its error when a
\* handler is configured and by none otherwise, and the handler is invoked for
\* nothing else; in the worker fan-out every Write has caused one invocation if
\* it failed and a handler is configured, else none; and in both the fan-out
\* goes on to the next destination after a failure.
WriteErrorsHandled ==
    /\ \A i \in DOMAIN events :
         /\ (events[i].t = "write" /\ ~events[i].ok /\ errorHandler) =>
               /\ i < Len(events)
               /\ events[i + 1] = Event("handler", events[i].sink, events[i].e, FALSE)
         /\ events[i].t = "handler" =>
               /\ errorHandler
               /\ i > 1
               /\ events[i - 1] = Event("write", events[i].sink, events[i].e, FALSE)
    /\ \A x \in wrote : x.handled = (IF ~x.ok /\ errorHandler THEN 1 ELSE 0)
    /\ \A c \in Callers :
         pc[c].st = "write" =>
             WriteSinks(pc[c].e.id) = SubSeq(pc[c].snap, 1, pc[c].idx - 1)
    /\ \A x \in wrote : \A j \in 1 .. Len(sinks) - 1 :
         sinks[j] = x.sink =>
             \/ \E y \in wrote : y.id = x.id /\ y.sink = sinks[j + 1]
             \/ \E w \in WorkerIds :
                  wpc[w].st = "write" /\ wpc[w].e.id = x.id /\ wpc[w].idx = j + 1

\* A worker's failed Write was reported once and the next destination written,
\* and a synchronous failed Write was reported and the next destination written.
WriteErrorsWitness ==
    /\ errorHandler
    /\ \E x \in wrote :
         /\ ~x.ok /\ x.handled = 1
         /\ \E y \in wrote : y.id = x.id /\ y.sink # x.sink /\ y.ok
    /\ Len(events) >= 3
    /\ events[1].t = "write" /\ ~events[1].ok
    /\ events[2].t = "handler"
    /\ events[3].t = "write" /\ events[3].ok

\* C5: field merge precedence.  In every record on its way to the destinations
\* and in every record written, a key carries the call-site value if the call
\* site gives it, else the context-extracted value if an extractor is configured
\* and the context gives it, else the default value if the logger has one, and
\* is absent otherwise.
MergedByPrecedence(f, kv, ctx) ==
    \A k \in Keys :
        IF k \in AttrKeys(kv) THEN k \in DOMAIN f /\ f[k] = "site"
        ELSE IF extractor /\ k \in AttrKeys(ctx) THEN k \in DOMAIN f /\ f[k] = "ctx"
        ELSE IF k \in DOMAIN fields THEN k \in DOMAIN f /\ f[k] = "default"
        ELSE k \notin DOMAIN f

FieldMergePrecedence ==
    /\ \A c \in Callers :
         pc[c].st = "write" =>
             /\ MergedByPrecedence(pc[c].e.fields, pc[c].kv, pc[c].ctx)
             /\ \A j \in DOMAIN events : events[j].t = "write" => events[j].e = pc[c].e
    /\ \A i \in DOMAIN calls :
         calls[i].out = "delivered" =>
             /\ MergedByPrecedence(calls[i].e.fields, calls[i].kv, calls[i].ctx)
             /\ \A j \in DOMAIN events :
                  (events[j].t = "write" /\ events[j].e.id = calls[i].id) =>
                      events[j].e = calls[i].e

\* A written record whose key "a" is given at all three tiers and whose key "b"
\* is given by the context and the call site.
FieldMergeWitness ==
    \E i \in DOMAIN calls :
        /\ calls[i].out = "delivered"
        /\ extractor
        /\ "a" \in DOMAIN fields
        /\ "a" \in AttrKeys(calls[i].kv) /\ "a" \in AttrKeys(calls[i].ctx)
        /\ events # <<>>
        /\ events[1].t = "write"
        /\ events[1].e.fields["a"] = "site"

\* C6: non-blocking enqueue with drop-on-full.  A caller at the send can always
\* take it, and while no worker has dequeued anything the queue holds exactly
\* the first bufferSize gate-passing records in program order: the calls up to
\* the capacity were enqueued and every later one was dropped.
DropOnFull ==
    /\ \A c \in Callers : (pc[c].st = "send" /\ ~exited) => ENABLED LogAsync_Send(c)
    /\ NoDequeue =>
         /\ buffer = [i \in 1 .. Min(Len(Passing), bufferSize) |-> Passing[i].e]
         /\ \A i \in DOMAIN Passing :
              Passing[i].out = (IF i <= bufferSize THEN "enqueued" ELSE "dropped")

\* bufferSize + 1 gate-passing calls on the largest queue, nothing dequeued.
DropOnFullWitness ==
    /\ NoDequeue
    /\ bufferSize = MaxBuffer
    /\ Len(Passing) = bufferSize + 1
    /\ Passing[bufferSize + 1].out = "dropped"
    /\ Len(buffer) = bufferSize

\* C7: an async logging call made concurrently with or after Close never panics.
NoPanicOnLogging == \A c \in Callers : pc[c].st # "panicked"

\* C8: drain on close.
WrittenBeforeSinkClose(a) ==
    \A j \in 1 .. a.ns :
        \E x \in wrote : x.id = a.e.id /\ x.sink = sinks[j] /\ x.stage = "open"

NoTimeout == \A k \in Closers : cpc[k].via # "timeout"

\* C8 as stated: whenever a Close call has returned and no shutdown timeout has
\* elapsed, every record accepted before Close was called has been written to
\* every destination before any destination was closed.
DrainOnEveryCloseReturn ==
    \A k \in Closers :
        (cpc[k].st = "returned" /\ NoTimeout) =>
            \A i \in DOMAIN accepted :
                accepted[i].early => WrittenBeforeSinkClose(accepted[i])

\* C8 amended: when the Close call that closed the queue has returned after the
\* workers finished (not by the timeout), every record accepted into the queue
\* has been written to every destination before any destination was closed.
DrainOnClose ==
    \A k \in Closers :
        (cpc[k].st = "returned" /\ cpc[k].via = "drained") =>
            \A i \in DOMAIN accepted : WrittenBeforeSinkClose(accepted[i])

\* Close returned after the drain of a full queue of two records.
DrainOnCloseWitness ==
    \E k \in Closers :
        /\ cpc[k].st = "returned" /\ cpc[k].via = "drained"
        /\ Len(accepted) >= 2
        /\ accepted[1].early
        /\ \A i \in DOMAIN accepted : WrittenBeforeSinkClose(accepted[i])

\* C9: after AsyncLogger.Close (the call that shut the logger down) has
\* returned, by drain or by timeout, no destination receives a further Write.
NoWriteAfterClose == \A x \in wrote : x.stage # "returned"

\* C10: Close is idempotent.  No Close call panics, at most one call gets past
\* the closed flag and it closes the queue, every later call is a no-op that
\* returns nil, and no destination is closed more than once.
CloseIdempotent ==
    /\ \A k \in Closers : cpc[k].st # "panicked"
    /\ \A s \in DOMAIN sinkCloses : sinkCloses[s] <= 1
    /\ Cardinality({k \in Closers : cpc[k].st # "idle" /\ cpc[k].via # "noop"}) <= 1
    /\ \A k \in Closers :
         /\ cpc[k].via = "noop" => cpc[k].st = "returned" /\ cpc[k].ret = 0
         /\ cpc[k].st # "idle" => closed
         /\ cpc[k].st \in {"wait", "closeSinks"} => bufClosed
         /\ (cpc[k].st = "returned" /\ cpc[k].via # "noop") => bufClosed
    /\ \A j, k \in Closers :
         (Earlier(j, k) /\ cpc[k].st # "idle") => cpc[k].via = "noop"

\* Two Close calls have returned: the first closed every destination once, the
\* second was a no-op.
CloseIdempotentWitness ==
    /\ cpc["k1"].st = "returned" /\ cpc["k1"].via # "noop"
    /\ cpc["k2"].st = "returned" /\ cpc["k2"].via = "noop" /\ cpc["k2"].ret = 0
    /\ \A i \in DOMAIN sinks : sinkCloses[sinks[i]] = 1

\* The summary of the finished call that built record id.
CallById(id) == calls[CHOOSE i \in DOMAIN calls : calls[i].id = id]

\* C11: in the async logger the context extractor and the hook chain run on the
\* caller's thread before the enqueue: every record accepted into the queue, and
\* every record a worker writes, is the record the hook chain returns for the
\* fields merged from the defaults, the context-extracted attributes and the
\* call-site attributes, and no record is accepted when a hook of the chain
\* vetoes.
AsyncAppliesHooksAndContext ==
    LET Expected(e) ==
            LET cs == CallById(e.id)
                keyvals == KeyvalsWithContext(extractor, cs.ctx, cs.kv)
            IN RunHooks(hooks, NewEntry(e.id, cs.lvl, MergeFields(fields, keyvals),
                                        e.layout))
    IN /\ \A i \in DOMAIN accepted :
            /\ ~Expected(accepted[i].e).veto
            /\ accepted[i].e = Expected(accepted[i].e).e
       /\ \A x \in wrote : ~Expected(x.e).veto /\ x.e = Expected(x.e).e

\* C12: the record the async path enqueues has the level, the merged field map
\* and the timestamp layout (the logger's configured time format) of the record
\* the synchronous path builds for the same configuration and call.
AsyncRecordEqualsSyncRecord ==
    \A i \in DOMAIN accepted :
        LET e == accepted[i].e
            cs == CallById(e.id)
        IN e = NewEntry(e.id, cs.lvl, MergeFields(fields, cs.kv), timeFormat)

\* C13: a Fatal call on the async logger never goes through the queue.  No Fatal
\* record is ever at the send, in the queue or written by a worker, a Fatal call
\* ends on the synchronous path, and when the process has terminated the Fatal
\* record has been written on the caller's thread to every destination, whatever
\* the queue holds and whatever stage a Close has reached.
FatalBypassesQueue ==
    /\ \A i \in DOMAIN accepted : accepted[i].e.level # FatalLevel
    /\ \A i \in DOMAIN buffer : buffer[i].level # FatalLevel
    /\ \A x \in wrote : x.e.level # FatalLevel
    /\ \A c \in Callers : pc[c].st = "send" => pc[c].lvl # FatalLevel
    /\ \A i \in DOMAIN calls :
         calls[i].lvl = FatalLevel =>
             /\ calls[i].out \in {"delivered", "vetoed"}
             /\ calls[i].out = "delivered" => exited
    /\ exited =>
         \E i \in DOMAIN calls :
             /\ calls[i].lvl = FatalLevel
             /\ calls[i].out = "delivered"
             /\ calls[i].snap = sinks
             /\ WriteSinks(calls[i].id) = sinks

\* The process was terminated by a Fatal call made with the largest queue full
\* and a Close waiting for the workers.
FatalBypassesQueueWitness ==
    /\ exited
    /\ bufferSize = MaxBuffer
    /\ Len(buffer) = bufferSize
    /\ \E k \in Closers : cpc[k].st = "wait"
    /\ \E i \in DOMAIN calls :
         calls[i].lvl = FatalLevel /\ WriteSinks(calls[i].id) = sinks /\ sinks # <<>>

\* C14: every Fatal call on the synchronous Logger terminates the process, after
\* a Write has been attempted on every registered destination, for every hook
\* chain and every outcome of the Writes.
FatalAlwaysTerminates ==
    /\ \A i \in DOMAIN calls :
         calls[i].lvl = FatalLevel =>
             /\ exited
             /\ WriteSinks(calls[i].id) = calls[i].snap
    /\ exited =>
         \E i \in DOMAIN calls :
             calls[i].lvl = FatalLevel /\ WriteSinks(calls[i].id) = calls[i].snap

\* Record a of accepted has been written by a worker to every destination.
WrittenToAll(a) ==
    \A j \in 1 .. a.ns : \E x \in wrote : x.id = a.e.id /\ x.sink = sinks[j]

\* A worker has dequeued record a and is in its fan-out loop.
InFlight(a) == \E w \in WorkerIds : wpc[w].st = "write" /\ wpc[w].e.id = a.e.id

RotationOutcome ==
    flast.rotated =>
        /\ disk[0] = File(<<flast.rec>>)
        /\ fsize = flast.rec.len
        /\ maxBackups > 0 => disk[1] = flast.before
        /\ maxBackups = 0 =>
             /\ ~disk[1].exists
             /\ \A i \in BackupIndexes : \A j \in DOMAIN disk[i].data :
                  \A k \in DOMAIN flast.before.data :
                      disk[i].data[j] # flast.before.data[k]

\* A Write rotated a non-empty active file into path.1.
RotationOutcomeWitness ==
    /\ flast.rotated
    /\ maxBackups > 0
    /\ flast.before.data # <<>>
    /\ disk[1] = flast.before
    /\ disk[0].data = <<flast.rec>>

\* C18: backup set.  With maxBackups = N > 0 and no backups at the start, only
\* path.1 .. path.N can exist, path.i holds the content of the i-th most
\* recently rotated-out active file, and the contents rotated out before the
\* last N are in no file: a rotation with N backups discards the oldest.
BackupSet ==
    maxBackups > 0 =>
        /\ \A i \in BackupIndexes \ {0} :
             IF i <= maxBackups /\ i <= Len(fhist)
             THEN disk[i] = File(fhist[i])
             ELSE ~disk[i].exists
        /\ \A j \in DOMAIN fhist :
             (j > maxBackups /\ fhist[j] # <<>>) =>
                 \A i \in BackupIndexes : disk[i].data # fhist[j]

\* The largest backup set is full and a further rotation has discarded the
\* oldest content.
BackupSetWitness ==
    /\ maxBackups = MaxBackups
    /\ Len(fhist) > maxBackups
    /\ fhist[Len(fhist)] # <<>>
    /\ \A i \in 1 .. maxBackups : disk[i].exists /\ disk[i].data # <<>>

\* C19: sampler admission inside one window.  For every key, the calls of the
\* current window that were allowed are the first call and every n-th call with
\* n <= Initial, or Thereafter > 0 and (n - Initial) mod Thereafter = 0; with
\* Initial = 2 and Thereafter = 3 nine calls allow 1, 2, 5, 8; with
\* Thereafter <= 0 nothing beyond Initial is allowed.
SamplerAdmission ==
    \A key \in SampleKeys :
        /\ ~counts[key].exists => admitted[key] = {}
        /\ counts[key].exists =>
             /\ 1 \in admitted[key]
             /\ admitted[key] =
                    {n \in 1 .. counts[key].count :
                        \/ n = 1
                        \/ n <= sInitial
                        \/ sThereafter > 0 /\ (n - sInitial) % sThereafter = 0}
             /\ (sInitial = 2 /\ sThereafter = 3 /\ counts[key].count = 9) =>
                    admitted[key] = {1, 2, 5, 8}
             /\ sThereafter <= 0 =>
                    \A n \in admitted[key] : n = 1 \/ n <= sInitial

\* Nine calls for one key in one window with Initial = 2 and Thereafter = 3.
SamplerAdmissionWitness ==
    /\ sInitial = 2
    /\ sThereafter = 3
    /\ \E key \in SampleKeys : counts[key].count = 9 /\ admitted[key] = {1, 2, 5, 8}

\* C20: an Error or Fatal call made through the SampledLogger is forwarded to
\* the base logger and leaves every per-key counter and window as it was.
ErrorFatalNotSampled ==
    slast.lv \in {ErrorLevel, FatalLevel} =>
        /\ slast.forwarded
        /\ counts = slast.before

\* An Error call was forwarded for a key whose window rejects sampled calls.
ErrorFatalNotSampledWitness ==
    /\ slast.lv = ErrorLevel
    /\ slast.forwarded
    /\ sThereafter <= 0
    /\ counts[slast.key].exists
    /\ counts[slast.key].count > sInitial
    /\ counts[slast.key].count > 1
    /\ now <= counts[slast.key].resetTime

\* C21: ParseLevel is case-insensitive: every casing of debug, info, warn,
\* warning, error and fatal is parsed to the level of that name (warning to
\* Warn), and every other string to Info.
ParseLevelCaseInsensitive ==
    pout # -1 =>
        pout = (IF pin.word \in LevelNames THEN NamedLevel[pin.word] ELSE InfoLevel)

\* The keys given to With in pairs whose key is a string.
WithKeys(args) == {args[i].val : i \in {j \in 1 .. Len(args) - 1 : j % 2 = 1 /\ args[j].isString}}

\* C22: the logger With returns has the parent's default fields plus the given
\* pairs, a given key overriding the parent's default; its records carry those
\* fields under the call-site fields and are written to the parent's
\* destinations in order; the parent's own default fields are as they were.
WithDerivesFields ==
    /\ fields = DefaultFields
    /\ child.made =>
         /\ DOMAIN child.l.fields = DOMAIN fields \cup WithKeys(child.args)
         /\ \A k \in DOMAIN child.l.fields :
              child.l.fields[k] = (IF k \in WithKeys(child.args) THEN "with" ELSE fields[k])
         /\ child.l.sinks = sinks
    /\ (clog.who = "child" /\ clog.r.out = "delivered") =>
         /\ clog.r.writes = sinks
         /\ \A k \in Keys :
              IF k \in AttrKeys(clog.kv)
              THEN k \in DOMAIN clog.r.e.fields /\ clog.r.e.fields[k] = "site"
              ELSE IF k \in WithKeys(child.args)
              THEN k \in DOMAIN clog.r.e.fields /\ clog.r.e.fields[k] = "with"
              ELSE IF k \in DOMAIN fields
              THEN k \in DOMAIN clog.r.e.fields /\ clog.r.e.fields[k] = fields[k]
              ELSE k \notin DOMAIN clog.r.e.fields

\* A record logged through With("a", ...) on a parent with a default for "a"
\* was written to both of the parent's destinations.
WithDerivesFieldsWitness ==
    /\ child.made
    /\ "a" \in WithKeys(child.args)
    /\ clog.who = "child"
    /\ clog.r.out = "delivered"
    /\ clog.kv = <<>>
    /\ Len(sinks) = MaxSinks
    /\ clog.r.writes = sinks
    /\ clog.r.e.fields["a"] = "with"

\* The records of a sampled level (Debug, Info, Warn) accepted into the queue.
SampledAccepted == {i \in 1 .. Len(accepted) : accepted[i].e.level < ErrorLevel}

\* C23: with WithSampling(cfg) the AsyncLogger admits Debug/Info/Warn records
\* according to cfg: with Initial = 1 and Thereafter = 0 at most one such
\* record of a window is enqueued.
AsyncSamplingApplied ==
    sampling.set => Cardinality(SampledAccepted) <= sampling.Initial

\* C24: rotation trigger.  A Write rotates exactly when maxSize > 0 and
\* size + len(data) > maxSize; with maxSize <= 0 nothing is ever rotated and the
\* active file only grows; the record of a Write is whole in the active file
\* (after a rotation: alone in the new active file) and in no other file.
RotationTrigger ==
    fwrites > 0 =>
        /\ flast.rotated <=> (maxSize > 0 /\ flast.size + flast.rec.len > maxSize)
        /\ flast.size = Bytes(flast.before.data)
        /\ disk[0].data = (IF flast.rotated THEN <<>> ELSE flast.before.data) \o <<flast.rec>>
        /\ \A i \in BackupIndexes \ {0} : \A j \in DOMAIN disk[i].data :
               disk[i].data[j].id # flast.rec.id
        /\ maxSize <= 0 =>
               /\ fhist = <<>>
               /\ Len(disk[0].data) >= fwrites
               /\ \A i \in BackupIndexes \ {0} : ~disk[i].exists

\* A Write of one byte on an active file of exactly maxSize bytes rotated.
RotationTriggerWitness ==
    /\ flast.rotated
    /\ flast.size + flast.rec.len = maxSize + 1
    /\ flast.size = maxSize
    /\ disk[0].data = <<flast.rec>>

\* C25: rotation accounting.  In every state the tracked size equals the bytes
\* in the open active file, also after Writes that failed and after rotations
\* in which the rename or the delete of the active file failed.
SizeMatchesActiveFile ==
    fhandle = "open" => (disk[0].exists /\ fsize = Bytes(disk[0].data))

\* C27: rotation error reporting.  Every failed I/O operation of a Write other
\* than a rename of the shift loop makes Write return an error.
RotationErrorsReturned ==
    fret.failed \ {"shift"} # {} => fret.err

\* The number of copies of record id in the files.
RECURSIVE Copies(_, _)
Copies(id, i) ==
    IF i > MaxBackups THEN 0
    ELSE Cardinality({j \in DOMAIN disk[i].data : disk[i].data[j].id = id}) + Copies(id, i + 1)

\* C26: Write is atomic.  At most one writer is between Lock and Unlock; from
\* its size check to its append the files and the size are as it found them,
\* changed only by its own rotation; the record of every finished Write is
\* whole in one file or in none after it was rotated out.
WriteAtomic ==
    /\ \A v, w \in Writers : (wr[v].st # "idle" /\ wr[w].st # "idle") => v = w
    /\ \A w \in Writers :
         /\ wr[w].st = "checked" => (fsize = wr[w].size /\ disk = wr[w].disk)
         /\ wr[w].st = "rotated" =>
                (fsize = 0 /\ disk = RotateFiles(wr[w].disk, maxBackups))
         /\ wr[w].st = "appended" =>
                /\ fsize = (IF wr[w].rot THEN 0 ELSE wr[w].size) + wr[w].rec.len
                /\ disk[0].data =
                     (IF wr[w].rot THEN <<>> ELSE wr[w].disk[0].data) \o <<wr[w].rec>>
    /\ \A id \in 1 .. fwrites : Copies(id, 0) <= 1
    /\ fsize = Bytes(disk[0].data)

\* Writer w1 has rotated and is about to append while w2, which wrote before,
\* is waiting outside.
WriteAtomicWitness ==
    /\ wr["w1"].st = "rotated"
    /\ wr["w2"].st = "idle"
    /\ wr["w2"].n > 0
    /\ fmu = "w1"

\* The step is a Debug, Info or Warn call for key made through the
\* SampledLogger.
SampledCallFor(key) ==
    /\ slast'.key = key
    /\ slast'.lv \in {DebugLevel, InfoLevel, WarnLevel}
    /\ slast'.before = counts

\* C28: sampler window reset.  A sampled call for a key never seen, or made
\* after the key's window end, sets the key's count to 1, starts a window
\* ending Interval after now, and is allowed; a call made no later than the
\* window end keeps the window end and adds one to the count; nothing else
\* changes a key's counter.
WindowReset ==
    [][\A key \in SampleKeys :
         /\ SampledCallFor(key) =>
              IF ~counts[key].exists \/ now > counts[key].resetTime
              THEN /\ counts'[key] = Counter(1, now + sInterval)
                   /\ slast'.forwarded
              ELSE /\ counts'[key].resetTime = counts[key].resetTime
                   /\ counts'[key].count = counts[key].count + 1
         /\ ~SampledCallFor(key) => counts'[key] = counts[key]]_vars

\* A key whose window had counted several calls and then ended was called
\* again: its count is 1 in a window that started after the old window's end.
WindowResetWitness ==
    /\ slast.key \in SampleKeys
    /\ slast.forwarded
    /\ slast.before[slast.key].exists
    /\ slast.before[slast.key].count > 1
    /\ counts[slast.key].count = 1
    /\ counts[slast.key].resetTime - sInterval > slast.before[slast.key].resetTime

\* The position of the first hook of the chain that returns an error, or one
\* past the end of the chain.
FirstVeto ==
    CHOOSE i \in 1 .. Len(hooks) + 1 :
        /\ i <= Len(hooks) => hooks[i] = "veto"
        /\ \A j \in 1 .. i - 1 : hooks[j] # "veto"

\* The hooks invoked when the chain is run in registration order up to the
\* first error.
Invoked == 1 .. Min(FirstVeto, Len(hooks))

\* C29: hook chain order.  The hooks run in registration order on one record:
\* the record after the chain carries the mutation of every hook up to the first
\* error, a hook that reads the record sees what all earlier hooks set (and
\* nothing of later ones), and no hook after the first error is invoked.
HookChainOrder ==
    clog.who = "parent" =>
        /\ clog.r.ran = Cardinality(Invoked)
        /\ clog.r.out = (IF FirstVeto <= Len(hooks) THEN "vetoed" ELSE "delivered")
        /\ HookKey \in DOMAIN clog.r.e.fields <=> \E i \in Invoked : hooks[i] = "mark"
        /\ StampKey \in DOMAIN clog.r.e.fields <=> \E i \in Invoked : hooks[i] = "stamp"
        /\ \A i \in Invoked :
             (hooks[i] = "stamp" /\ \A j \in Invoked : j > i => hooks[j] # "stamp") =>
                 clog.r.e.fields[StampKey] =
                     (IF \E j \in 1 .. i - 1 : hooks[j] = "mark" THEN "after" ELSE "before")

\* A chain stamp, mark, stamp, veto: the second stamp saw the mark, the veto
\* was the last hook invoked.
HookChainOrderWitness ==
    /\ hooks = <<"stamp", "mark", "stamp", "veto">>
    /\ clog.who = "parent"
    /\ clog.r.out = "vetoed"
    /\ clog.r.ran = 4
    /\ clog.r.e.fields[StampKey] = "after"

\* The number of Writes of record id to destination s made by Logger.log.
SyncWrites(id, s) ==
    Cardinality({j \in DOMAIN events :
                    events[j].t = "write" /\ events[j].e.id = id /\ events[j].sink = s})

\* Where the accepted record id is: queued, held by a worker, or written out.
Queued(id) == Cardinality({j \in DOMAIN buffer : buffer[j].id = id})
Holders(id) == {w \in WorkerIds : wpc[w].st = "write" /\ wpc[w].e.id = id}
WrittenOut(id) == IF \E x \in wrote : x.id = id /\ x.sink = Len(sinks) THEN 1 ELSE 0

\* C30: no duplicate delivery.  Under every interleaving of two callers and the
\* workers: a synchronous call that finished "delivered" made exactly one Write
\* per destination, and one in progress at most one; exactly `workers` workers
\* run; every record accepted into the queue is queued, or held by exactly one
\* worker, or written out, never two of these; no worker Write of a record to a
\* destination is a second one.
NoDuplicateDelivery ==
    /\ \A i \in DOMAIN calls :
         calls[i].out = "delivered" =>
             \A k \in DOMAIN calls[i].snap : SyncWrites(calls[i].id, calls[i].snap[k]) = 1
    /\ \A c \in Producers :
         pc[c].st = "write" =>
             \A k \in DOMAIN pc[c].snap :
                 SyncWrites(pc[c].e.id, pc[c].snap[k]) = (IF k < pc[c].idx THEN 1 ELSE 0)
    /\ Cardinality({w \in WorkerIds : wpc[w].st # "absent"}) = workers
    /\ \A j \in DOMAIN accepted :
         Queued(accepted[j].e.id) + Cardinality(Holders(accepted[j].e.id))
             + WrittenOut(accepted[j].e.id) = 1
    /\ \A x \in wrote : x.nth = 1

\* Both callers are in the fan-out of a synchronous call while each of two
\* workers holds a record of its own.
NoDuplicateDeliveryWitness ==
    /\ pc["p1"].st = "write"
    /\ pc["p2"].st = "write"
    /\ pc["p1"].idx = 2
    /\ workers = 2
    /\ wpc[1].st = "write"
    /\ wpc[2].st = "write"
    /\ wpc[1].e.id # wpc[2].e.id

\* C34: a logger derived by With applies its parent's hook chain, context
\* extractor and error handler: a record the parent's chain vetoes is not
\* written through the derived logger, the context attributes are merged when
\* the parent has an extractor, and every failed Write of the derived logger
\* invokes the parent's error handler.
DerivedAppliesParentPipeline ==
    (clog.who = "child" /\ clog.r.out # "filtered") =>
        /\ (\E i \in DOMAIN hooks : hooks[i] = "veto") => clog.r.out = "vetoed"
        /\ (clog.r.out = "delivered" /\ errorHandler) =>
               clog.r.handled =
                   Cardinality({i \in DOMAIN clog.r.writes : clog.r.writes[i] \in faulty})
        /\ (clog.r.out = "delivered" /\ extractor) =>
               \A k \in AttrKeys(clog.ctx) : k \in DOMAIN clog.r.e.fields

\* C37: a rotation failure affects only the Write that hit it.  After a Write
\* failed because the reopen of the base path failed, a Write during which
\* every I/O operation can succeed returns no error and its record is the last
\* of the active file.
RotationFailureIsLocal ==
    (fret.cut /\ fret.faults = {}) =>
        /\ ~fret.err
        /\ disk[0].exists
        /\ disk[0].data # <<>>
        /\ disk[0].data[Len(disk[0].data)] = flast.rec

\* C38: size bound of the active file.  With maxSize > 0, an initial file and
\* records of at most maxSize bytes each, the active file holds at most maxSize
\* bytes after every Write that returned no error.
ActiveFileBounded ==
    (/\ maxSize > 0
     /\ fwrites > 0
     /\ ~fret.err
     /\ disk[0].exists
     /\ \A j \in DOMAIN disk[0].data : disk[0].data[j].len <= maxSize) =>
        Bytes(disk[0].data) <= maxSize

\* C39: no rotation of an empty active file.  A Write made while the tracked
\* size is 0 does not rotate, whatever the length of its record.
NoRotationOfEmptyFile ==
    flast.rotated => flast.size > 0

\* C36: every Debug, Info or Warn record that reaches the base logger through
\* the SampledLogger, Context variants included, was admitted by the sampler:
\* the call that forwards it advances the counter of its key to a count the
\* sampler allows.
ForwardedWasAdmitted ==
    [][(/\ slast' # slast
        /\ slast'.lv \in {DebugLevel, InfoLevel, WarnLevel}
        /\ slast'.forwarded) =>
           /\ counts'[slast'.key] # counts[slast'.key]
           /\ counts'[slast'.key].count \in admitted'[slast'.key]]_vars

\* C35: after With the destinations of the parent and of the derived logger
\* are independent: an AddSink on one leaves the destinations the other sees
\* as they were, whatever the number of destinations and the spare capacity
\* at derivation.
SinksIndependent ==
    [][child.made =>
          /\ heap'.p # heap.p => child'.l.sinks = child.l.sinks
          /\ heap'.c # heap.c => sinks' = sinks]_vars

\* Destination s has received the accepted record a: a worker called its Write.
ReceivedBy(s, a) == \E x \in wrote : x.id = a.e.id /\ x.sink = s

\* C33: with one worker and one producer every destination receives the
\* accepted records in the order in which they were enqueued: whenever a
\* destination has received a record it has received every record accepted
\* before it.  (With two workers or more the order can be reversed: the
\* witness below.)
FifoSingleWorker ==
    workers = 1 =>
        \A s \in 1 .. Len(sinks), j \in 1 .. Len(accepted), i \in 1 .. Len(accepted) :
            i < j /\ ReceivedBy(s, accepted[j]) => ReceivedBy(s, accepted[i])

\* With two workers a destination has received the later of two records of the
\* one producer while the earlier one, dequeued first, is held by the other
\* worker, which has still to write it to that destination.
ReorderReached ==
    /\ workers >= 2
    /\ \E s \in 1 .. Len(sinks), j \in 1 .. Len(accepted), i \in 1 .. Len(accepted) :
         /\ i < j
         /\ accepted[i].e.id[1] = accepted[j].e.id[1]
         /\ ReceivedBy(s, accepted[j])
         /\ ~ReceivedBy(s, accepted[i])
         /\ \E w \in WorkerIds :
              /\ wpc[w].st = "write"
              /\ wpc[w].e.id = accepted[i].e.id
              /\ \E n \in wpc[w].idx .. Len(wpc[w].snap) : wpc[w].snap[n] = s

\* C32: Flush terminates.  With a worker that keeps running, Writes that
\* return and a producer that stops enqueueing, every call of Flush returns.
FlushTerminates == (fpc.st = "poll") ~> (fpc.st = "returned")

\* Flush has returned after the producer filled the queue: the records accepted
\* before the call, as many as the queue holds, have all left the queue.
FlushTerminatesWitness ==
    /\ fpc.st = "returned"
    /\ bufferSize = MaxBuffer
    /\ fpc.mark >= MaxBuffer
    /\ buffer = <<>>
    /\ \A i \in 1 .. Len(accepted) : WrittenToAll(accepted[i])

\* C31: bounded shutdown.  A Close call that waits for the workers returns, by
\* the shutdown timeout at the latest, even if a worker is blocked for ever in
\* the Write of a destination.
CloseReturnsAfterTimeout ==
    \A k \in Closers : (cpc[k].st = "wait") ~> (cpc[k].st = "returned")

\* C31, the same for a worker blocked in the Write of a destination that is no
\* FileSink.
CloseReturnsWithoutFileSinkBlocked ==
    \A k \in Closers :
        (cpc[k].st = "wait" /\ \A s \in FileSinks : [](~Held(s))) ~> (cpc[k].st = "returned")

\* C31, second part: a record that is still in the queue when the Close that
\* timed out has returned is never written to a destination.
QueuedAtTimeoutNeverWritten ==
    \A c \in Callers, n \in 1 .. MaxCalls :
        []((/\ \E k \in Closers : cpc[k].st = "returned" /\ cpc[k].via = "timeout"
            /\ \E i \in 1 .. Len(buffer) : buffer[i].id = <<c, n>>)
           => [](~(\E x \in wrote : x.id = <<c, n>>)))

====
